---- MODULE Spec2Model ----
(***************************************************************************)
(* Model of kunnath/deepcase, src/jira_test_generator.py:                  *)
(*   - BrowserTestRunner: one worker thread per accepted launch, two       *)
(*     unbounded queues, the boolean running flag;                         *)
(*   - the Streamlit script main() as a render tick that polls the queues; *)
(*   - TestDataManager: the CSV cursor, get_test_data, detect_feature_type;*)
(*   - the three JIRA REST wrappers.                                       *)
(***************************************************************************)
EXTENDS Integers, Sequences, FiniteSets, TLC

\* ---------------------------------------------------------------- bounds
MaxRuns == 2        \* worker threads started in one behaviour
MaxRows == 3        \* rows of a CSV file given to load_csv_data
MaxCalls == 5       \* cursor-advancing calls counted after a load
UiRows == 1         \* rows of the file in the uploader of the page

\* ------------------------------------------------------ program constants
DemoSteps == 9      \* len(demo_steps) in run_demo_automation

VARIABLES
    \* BrowserTestRunner
    running,            \* self.running
    thread,             \* self.thread: index of the last thread started, 0 = None
    status_queue,       \* self.status_queue
    result_queue,       \* self.result_queue
    current_report_dir, \* self.current_report_dir: run whose directory it names, 0 = None
    workers,            \* the run_in_thread closures started so far
    \* TestDataManager
    csv_data,           \* self.csv_data: None or the sequence of rows
    current_row_index,  \* self.current_row_index
    \* st.session_state and the widgets of main()
    session,
    \* the script run (render tick) of main()
    ui,
    \* history of what the workers and the UI did
    hist,
    \* the module global FAKER_AVAILABLE, lines 39-43
    FAKER_AVAILABLE,
    \* the last call of a function that is exercised on its own: its
    \* arguments, what it returned, and the state it was made in
    call

vars == <<running, thread, status_queue, result_queue, current_report_dir,
          workers, csv_data, current_row_index, session, ui, hist,
          FAKER_AVAILABLE, call>>

runnerVars == <<running, thread, status_queue, result_queue,
                current_report_dir, workers>>
managerVars == <<csv_data, current_row_index>>

Runs == 1..MaxRuns

\* ------------------------------------------------------- optional values
\* Python's None is the empty tuple, a present value v is <<v>>.
Nil == <<>>
Some(v) == <<v>>
IsNil(o) == o = <<>>
Val(o) == o[1]

\* ------------------------------------------------------------- CSV files
\* A dict of field values: {} (empty), one row of a data frame, identified
\* by the file it came from and its line, or a dict of generated values.
EmptyDict == [kind |-> "empty", file |-> 0, line |-> 0, ft |-> ""]
CsvRow(n, i) == [kind |-> "csv", file |-> n, line |-> i, ft |-> ""]
FakerDict(ft) == [kind |-> "faker", file |-> 0, line |-> 0, ft |-> ft]

\* pd.read_csv of a readable file with n data rows: a frame of n rows;
\* self.csv_data = None is the frame that is not loaded.
NoCsv == [loaded |-> FALSE, rows |-> <<>>]
Frame(n) == [loaded |-> TRUE, rows |-> [i \in 1..n |-> CsvRow(n, i - 1)]]

\* what the uploader widget can hold: nothing, a readable file of
\* 0..MaxRows data rows, or a file that pd.read_csv rejects
NoFile == [kind |-> "none", n |-> 0]
Files == {[kind |-> "csv", n |-> n] : n \in 0..MaxRows} \cup {[kind |-> "bad", n |-> 0]}

\* ------------------------------------------------------- TestDataManager
FeatureTypes == {"login", "registration", "product", "search", "contact",
                 "payment", "profile", "generic"}

\* load_csv_data: the new [csv, cur, ok]; a failing read_csv leaves both
\* attributes as they were
load_csv_data(csv, cur, file) ==
    IF file.kind = "csv"
    THEN [csv |-> Frame(file.n), cur |-> 0, ok |-> TRUE]
    ELSE [csv |-> csv, cur |-> cur, ok |-> FALSE]

\* generate_faker_data: {} without the faker library
generate_faker_data(faker_available, feature_type) ==
    IF ~faker_available THEN EmptyDict ELSE FakerDict(feature_type)

\* get_csv_data_row that moves the cursor on without wrapping it
get_csv_data_row_NoWrap(csv, cur, row_index) ==
    IF ~csv.loaded \/ Len(csv.rows) = 0
    THEN [row |-> EmptyDict, cur |-> cur]
    ELSE LET n == Len(csv.rows)
             idx == IF IsNil(row_index) THEN cur ELSE Val(row_index)
             cur2 == IF IsNil(row_index) THEN cur + 1 ELSE cur
         IN  [row |-> csv.rows[(idx % n) + 1], cur |-> cur2]

\* get_csv_data_row: the returned dict and the new cursor
get_csv_data_row(csv, cur, row_index) ==
    IF ~csv.loaded \/ Len(csv.rows) = 0
    THEN [row |-> EmptyDict, cur |-> cur]
    ELSE LET n == Len(csv.rows)
             idx == IF IsNil(row_index) THEN cur ELSE Val(row_index)
             cur2 == IF IsNil(row_index) THEN (cur + 1) % n ELSE cur
         IN  [row |-> csv.rows[(idx % n) + 1], cur |-> cur2]

\* get_test_data that looks at data_mode only
get_test_data_ModeOnly(csv, cur, faker_available, feature_type, data_mode, row_index) ==
    IF data_mode = "csv"
    THEN LET r == get_csv_data_row(csv, cur, row_index)
         IN  [ret |-> [source |-> "csv", data |-> r.row,
                       row_index |-> IF IsNil(row_index) THEN Some(r.cur - 1)
                                     ELSE row_index,
                       feature_type |-> Nil],
              cur |-> r.cur]
    ELSE [ret |-> [source |-> "faker",
                   data |-> generate_faker_data(faker_available, feature_type),
                   row_index |-> Nil,
                   feature_type |-> Some(feature_type)],
          cur |-> cur]

\* get_test_data: the returned record and the new cursor.  A key the
\* record does not have is Nil.
get_test_data(csv, cur, faker_available, feature_type, data_mode, row_index) ==
    IF data_mode = "csv" /\ csv.loaded
    THEN LET r == get_csv_data_row(csv, cur, row_index)
         IN  [ret |-> [source |-> "csv", data |-> r.row,
                       row_index |-> IF IsNil(row_index) THEN Some(r.cur - 1)
                                     ELSE row_index,
                       feature_type |-> Nil],
              cur |-> r.cur]
    ELSE [ret |-> [source |-> "faker",
                   data |-> generate_faker_data(faker_available, feature_type),
                   row_index |-> Nil,
                   feature_type |-> Some(feature_type)],
          cur |-> cur]

\* no call made yet
NoCall == [op |-> "none"]

\* ----------------------------------------------------- BrowserTestRunner
\* an item of status_queue: the run that pushed it and what the string is:
\* "\u274c Error: <msg>" (line 1097), "\u274c Error generating Playwright
\* scripts: <msg>" (line 1419), or one of the progress messages
Status(r, kind, msg) ==
    [run |-> r,
     kind |-> IF kind \in {"error", "pw_error"} THEN kind ELSE "info",
     msg |-> msg]

\* str(e) of the exception raised at step `at`: some non-empty text
ErrText(at) == IF at = "" THEN "" ELSE "msg"

\* the final result dict of a run
ResultOk(r, w) ==
    [run |-> r, success |-> TRUE, error |-> "",
     report_path |-> w.report_path, playwright_scripts |-> w.playwright_result,
     mode |-> IF w.browser_available THEN "real" ELSE "demo",
     test_data |-> w.test_data]
ResultFail(r, w) ==
    [run |-> r, success |-> FALSE, error |-> ErrText(w.err),
     report_path |-> FALSE, playwright_scripts |-> FALSE,
     mode |-> "", test_data |-> Nil]

\* a run_in_thread closure: its position, its locals, and the log of what
\* it has put on the two queues
NewWorker ==
    [pc |-> "new", test_data |-> Nil, browser_available |-> FALSE, i |-> 0,
     err |-> "", agent_calls |-> 0, report_path |-> FALSE,
     playwright_result |-> FALSE, log |-> <<>>]

Active(r) == workers[r].pc \notin {"new", "done"}

\* the worker moves on to pc2 having put the statuses kinds
Go(w, pc2, kinds) == [w EXCEPT !.pc = pc2, !.log = @ \o kinds]
\* a try block with a finally clause only
Raise_Uncaught(w, at) == [w EXCEPT !.pc = "finally", !.err = at]

\* an exception raised at step `at` inside the try block: control goes to
\* the except clause of run_in_thread
Raise(w, at) == [w EXCEPT !.pc = "except", !.err = at]

uiVars == <<csv_data, current_row_index, session, ui, hist>>

\* a worker that starts without the "Initializing" status
WInit_Silent(r) ==
    /\ workers[r].pc = "init"
    /\ workers' = [workers EXCEPT ![r] = Go(@, "mkdir", <<>>)]
    /\ UNCHANGED <<running, thread, status_queue, result_queue,
                   current_report_dir, uiVars>>

\* line 1011
WInit(r) ==
    /\ workers[r].pc = "init"
    /\ status_queue' = Append(status_queue, Status(r, "init", ""))
    /\ workers' = [workers EXCEPT ![r] = Go(@, "mkdir", <<"init">>)]
    /\ UNCHANGED <<running, thread, result_queue, current_report_dir, uiVars>>

\* lines 1014-1019: the attribute is assigned before mkdir can raise
WMkdir(r) ==
    /\ workers[r].pc = "mkdir"
    /\ current_report_dir' = r
    /\ \/ /\ workers' = [workers EXCEPT ![r] = Raise(@, "mkdir")]
          /\ UNCHANGED status_queue
       \/ /\ status_queue' = Append(status_queue, Status(r, "dir", ""))
          /\ workers' = [workers EXCEPT ![r] = Go(@, "dump", <<"dir">>)]
    /\ UNCHANGED <<running, thread, result_queue, uiVars>>

\* lines 1022-1025
WDump(r) ==
    /\ workers[r].pc = "dump"
    /\ IF IsNil(workers[r].test_data)
       THEN /\ workers' = [workers EXCEPT ![r] = Go(@, "import", <<>>)]
            /\ UNCHANGED status_queue
       ELSE \/ /\ workers' = [workers EXCEPT ![r] = Raise(@, "dump")]
               /\ UNCHANGED status_queue
            \/ /\ status_queue' = Append(status_queue, Status(r, "data", ""))
               /\ workers' = [workers EXCEPT ![r] = Go(@, "import", <<"data">>)]
    /\ UNCHANGED <<running, thread, result_queue, current_report_dir, uiVars>>

\* lines 1027-1035: only ImportError selects the demo mode
WImport(r) ==
    /\ workers[r].pc = "import"
    /\ \/ /\ status_queue' = Append(status_queue, Status(r, "lib_ok", ""))
          /\ workers' = [workers EXCEPT ![r] =
                 [Go(@, "setup", <<"lib_ok">>) EXCEPT !.browser_available = TRUE]]
       \/ /\ status_queue' = Append(status_queue, Status(r, "demo_mode", ""))
          /\ workers' = [workers EXCEPT ![r] =
                 [Go(@, "demo", <<"demo_mode">>) EXCEPT !.browser_available = FALSE]]
       \/ /\ workers' = [workers EXCEPT ![r] = Raise(@, "import")]
          /\ UNCHANGED status_queue
    /\ UNCHANGED <<running, thread, result_queue, current_report_dir, uiVars>>

\* lines 1038-1042: the status, then ChatDeepSeek(...)
WSetup(r) ==
    /\ workers[r].pc = "setup"
    /\ status_queue' = Append(status_queue, Status(r, "setup", ""))
    /\ \/ workers' = [workers EXCEPT ![r] = Go(@, "browser", <<"setup">>)]
       \/ workers' = [workers EXCEPT ![r] = Raise(Go(@, "setup", <<"setup">>), "llm")]
    /\ UNCHANGED <<running, thread, result_queue, current_report_dir, uiVars>>

\* lines 1044-1053: the status, then Agent(...)
WBrowser(r) ==
    /\ workers[r].pc = "browser"
    /\ status_queue' = Append(status_queue, Status(r, "browser", ""))
    /\ \/ workers' = [workers EXCEPT ![r] = Go(@, "exec", <<"browser">>)]
       \/ workers' = [workers EXCEPT ![r] = Raise(Go(@, "browser", <<"browser">>), "agent")]
    /\ UNCHANGED <<running, thread, result_queue, current_report_dir, uiVars>>

\* lines 1055-1058
WExec(r) ==
    /\ workers[r].pc = "exec"
    /\ status_queue' = Append(status_queue, Status(r, "exec", ""))
    /\ workers' = [workers EXCEPT ![r] = Go(@, "agent_run", <<"exec">>)]
    /\ UNCHANGED <<running, thread, result_queue, current_report_dir, uiVars>>

\* lines 1061-1065: agent.run() is called once; the status follows it
WAgentRun(r) ==
    /\ workers[r].pc = "agent_run"
    /\ \/ /\ status_queue' = Append(status_queue, Status(r, "completed", ""))
          /\ workers' = [workers EXCEPT ![r] =
                 [Go(@, "report", <<"completed">>) EXCEPT !.agent_calls = @ + 1]]
       \/ /\ workers' = [workers EXCEPT ![r] =
                 [Raise(@, "run") EXCEPT !.agent_calls = @ + 1]]
          /\ UNCHANGED status_queue
    /\ UNCHANGED <<running, thread, result_queue, current_report_dir, uiVars>>

\* line 1069
WDemo(r) ==
    /\ workers[r].pc = "demo"
    /\ status_queue' = Append(status_queue, Status(r, "demo", ""))
    /\ workers' = [workers EXCEPT ![r] = [Go(@, "demo_loop", <<"demo">>) EXCEPT !.i = 0]]
    /\ UNCHANGED <<running, thread, result_queue, current_report_dir, uiVars>>

\* run_demo_automation, lines 1126-1128: one status per demo step
WDemoStep(r) ==
    /\ workers[r].pc = "demo_loop"
    /\ workers[r].i < DemoSteps
    /\ status_queue' = Append(status_queue, Status(r, "demo_step", ""))
    /\ workers' = [workers EXCEPT ![r] =
           [Go(@, "demo_loop", <<"demo_step">>) EXCEPT !.i = @ + 1]]
    /\ UNCHANGED <<running, thread, result_queue, current_report_dir, uiVars>>

\* run_demo_automation, lines 1130-1159: the summary text; json.dumps of
\* the test data can raise
WDemoEnd(r) ==
    /\ workers[r].pc = "demo_loop"
    /\ workers[r].i = DemoSteps
    /\ \/ workers' = [workers EXCEPT ![r] = Go(@, "report", <<>>)]
       \/ workers' = [workers EXCEPT ![r] = Raise(@, "demo")]
    /\ UNCHANGED <<running, thread, status_queue, result_queue,
                   current_report_dir, uiVars>>

\* lines 1073-1074: generate_test_report returns the path, or None when
\* anything in it failed
WReport(r) ==
    /\ workers[r].pc = "report"
    /\ status_queue' = Append(status_queue, Status(r, "report", ""))
    /\ \E path \in BOOLEAN :
          workers' = [workers EXCEPT ![r] =
              [Go(@, "scripts", <<"report">>) EXCEPT !.report_path = path]]
    /\ UNCHANGED <<running, thread, result_queue, current_report_dir, uiVars>>

\* lines 1077-1084 and 1288: generate_playwright_scripts is entered
WScripts(r) ==
    /\ workers[r].pc = "scripts"
    /\ status_queue' = Append(status_queue, Status(r, "pw", ""))
    /\ workers' = [workers EXCEPT ![r] = Go(@, "scripts_end", <<"pw">>)]
    /\ UNCHANGED <<running, thread, result_queue, current_report_dir, uiVars>>

\* generate_playwright_scripts without its except clause: a failure goes
\* to the except clause of run_in_thread
WScriptsEnd_Raises(r) ==
    /\ workers[r].pc = "scripts_end"
    /\ \/ /\ status_queue' = Append(status_queue, Status(r, "pw_done", ""))
          /\ workers' = [workers EXCEPT ![r] =
                 [Go(@, "result", <<"pw_done">>) EXCEPT !.playwright_result = TRUE]]
       \/ /\ workers' = [workers EXCEPT ![r] = Raise(@, "scripts")]
          /\ UNCHANGED status_queue
    /\ UNCHANGED <<running, thread, result_queue, current_report_dir, uiVars>>

\* lines 1291-1420: the files are written and a record is returned, or an
\* exception is turned into a status and None
WScriptsEnd(r) ==
    /\ workers[r].pc = "scripts_end"
    /\ \/ /\ status_queue' = Append(status_queue, Status(r, "pw_done", ""))
          /\ workers' = [workers EXCEPT ![r] =
                 [Go(@, "result", <<"pw_done">>) EXCEPT !.playwright_result = TRUE]]
       \/ /\ status_queue' = Append(status_queue, Status(r, "pw_error", ErrText("scripts")))
          /\ workers' = [workers EXCEPT ![r] =
                 [Go(@, "result", <<"pw_error">>) EXCEPT !.playwright_result = FALSE]]
    /\ UNCHANGED <<running, thread, result_queue, current_report_dir, uiVars>>

\* lines 1086-1094
WResult(r) ==
    /\ workers[r].pc = "result"
    /\ result_queue' = Append(result_queue, ResultOk(r, workers[r]))
    /\ workers' = [workers EXCEPT ![r] = Go(@, "finally", <<"RESULT_OK">>)]
    /\ hist' = [hist EXCEPT !.results[r] = @ + 1]
    /\ UNCHANGED <<running, thread, status_queue, current_report_dir,
                   managerVars, session, ui>>

\* lines 1096-1097
WExceptStatus(r) ==
    /\ workers[r].pc = "except"
    /\ status_queue' = Append(status_queue, Status(r, "error", ErrText(workers[r].err)))
    /\ workers' = [workers EXCEPT ![r] = Go(@, "except_result", <<"error">>)]
    /\ UNCHANGED <<running, thread, result_queue, current_report_dir, uiVars>>

\* an except clause that reports the error status only
WExceptResult_NoPut(r) ==
    /\ workers[r].pc = "except_result"
    /\ workers' = [workers EXCEPT ![r] = Go(@, "finally", <<>>)]
    /\ UNCHANGED <<running, thread, status_queue, result_queue,
                   current_report_dir, uiVars>>

\* lines 1098-1101
WExceptResult(r) ==
    /\ workers[r].pc = "except_result"
    /\ result_queue' = Append(result_queue, ResultFail(r, workers[r]))
    /\ workers' = [workers EXCEPT ![r] = Go(@, "finally", <<"RESULT_FAIL">>)]
    /\ hist' = [hist EXCEPT !.results[r] = @ + 1]
    /\ UNCHANGED <<running, thread, status_queue, current_report_dir,
                   managerVars, session, ui>>

\* a worker that ends without clearing the flag
WFinally_NoReset(r) ==
    /\ workers[r].pc = "finally"
    /\ workers' = [workers EXCEPT ![r] = [NewWorker EXCEPT !.pc = "done"]]
    /\ UNCHANGED <<running, thread, status_queue, result_queue,
                   current_report_dir, uiVars>>

\* lines 1102-1103: the thread ends here, and its locals with it
WFinally(r) ==
    /\ workers[r].pc = "finally"
    /\ running' = FALSE
    /\ workers' = [workers EXCEPT ![r] = [NewWorker EXCEPT !.pc = "done"]]
    /\ UNCHANGED <<thread, status_queue, result_queue, current_report_dir, uiVars>>

WorkerStep(r) ==
    \/ WInit(r) \/ WMkdir(r) \/ WDump(r) \/ WImport(r)
    \/ WSetup(r) \/ WBrowser(r) \/ WExec(r) \/ WAgentRun(r)
    \/ WDemo(r) \/ WDemoStep(r) \/ WDemoEnd(r)
    \/ WReport(r) \/ WScripts(r) \/ WScriptsEnd(r) \/ WResult(r)
    \/ WExceptStatus(r) \/ WExceptResult(r) \/ WFinally(r)

\* ------------------------------------------------------------ main(): UI
\* the buttons of one tab (tab 1: created issue, tab 2: fetched issue)
RunButton(t) == IF t = 1 THEN "run_created" ELSE "run_fetched"
\* what rendering tab t takes off the page before it draws its own buttons;
\* both tabs draw the reset button under the one key "reset_csv"
TabButtons(t) == {RunButton(t)} \cup (IF t = 1 THEN {"reset_csv"} ELSE {})
\* hasattr(st.session_state, 'created_issue_key'), line 1693, and
\* hasattr(st.session_state, 'summary') and st.session_state.summary, line 1971
HasIssue(t) == IF t = 1 THEN session.created ELSE session.fetched

\* st.rerun(), and the start of a script run a widget event triggers: the
\* script starts again from the top; click is the button that triggered it
Rerun(click) == [pc |-> "sidebar", tab |-> 1, click |-> click,
                 test_data |-> Nil, ret |-> Nil]

\* the polling block of tab t is left: on to the next tab, or to the end
\* of the script
AfterTab(t) == IF t = 1 THEN [ui EXCEPT !.pc = "tab", !.tab = 2, !.test_data = Nil]
               ELSE [ui EXCEPT !.pc = "live", !.test_data = Nil]

\* The user clicks a button: "Run Test Steps" of a tab or "Reset CSV
\* Testing", when it was last rendered enabled, or any other widget of
\* the page ("none": no button of the model is triggered).  Streamlit
\* starts a script run for the event when none is running, and interrupts
\* a running one; the model lets it happen while the script is idle or has
\* just started (which is also where it is after time.sleep(1)).
UserClick ==
    /\ ui.pc \in {"idle", "sidebar"}
    /\ \E b \in {"none"} \cup session.shown :
          /\ b \in {"run_created", "run_fetched"} => thread < MaxRuns
          /\ ui' = Rerun(b)
    /\ ui' # ui
    /\ UNCHANGED <<runnerVars, managerVars, session, hist>>

\* lines 1522-1547: the sidebar; in CSV mode a file in the uploader is
\* loaded on every script run
Sidebar ==
    /\ ui.pc = "sidebar"
    /\ IF ~session.use_faker /\ session.uploaded.kind # "none"
       THEN LET l == load_csv_data(csv_data, current_row_index, session.uploaded)
            IN  csv_data' = l.csv /\ current_row_index' = l.cur
       ELSE UNCHANGED <<csv_data, current_row_index>>
    /\ ui' = [ui EXCEPT !.pc = "tab", !.tab = 1]
    /\ UNCHANGED <<runnerVars, session, hist>>

\* lines 1743-1749 / 2023-2029: csv_can_continue
csv_can_continue ==
    ~(~session.use_faker /\ csv_data.loaded
      /\ session.csv_rows_tested >= Len(csv_data.rows))

\* lines 1693-1759 / 1971-2039: when the session holds the issue of the
\* tab, the test data, the reset button and the run button
TabBlock ==
    /\ ui.pc = "tab"
    /\ LET t == ui.tab
           td == get_test_data(csv_data, current_row_index, FAKER_AVAILABLE,
                               "generic",
                               IF session.use_faker THEN "faker" ELSE "csv", Nil)
           reset_shown == ~csv_can_continue
           run_disabled == ~session.deepseek_api_key \/ running \/ ~csv_can_continue
           shown == (session.shown \ TabButtons(t))
                    \cup (IF reset_shown THEN {"reset_csv"} ELSE {})
                    \cup (IF run_disabled THEN {} ELSE {RunButton(t)})
       IN
       IF ~HasIssue(t)
       THEN /\ session' = [session EXCEPT !.shown = @ \ TabButtons(t)]
            /\ ui' = AfterTab(t)
            /\ UNCHANGED <<managerVars, hist>>
       ELSE IF reset_shown /\ ui.click = "reset_csv"
       THEN \* lines 1751-1755 / 2031-2035
            /\ session' = [session EXCEPT !.csv_rows_tested = 0]
            /\ current_row_index' = 0
            /\ hist' = [hist EXCEPT !.csv_runs = 0]
            /\ ui' = Rerun("none")
            /\ UNCHANGED csv_data
       ELSE /\ session' = [session EXCEPT !.shown = shown]
            /\ current_row_index' = td.cur
            /\ ui' = [ui EXCEPT !.pc = IF ui.click = RunButton(t) THEN "call" ELSE "status",
                                !.test_data = Some(td.ret)]
            /\ UNCHANGED <<csv_data, hist>>
    /\ UNCHANGED runnerVars

\* a rejected call that reports itself on the status queue
Call_RejectReports ==
    /\ ui.pc = "call"
    /\ IF ~running
       THEN /\ ui' = [ui EXCEPT !.pc = "start"]
            /\ UNCHANGED status_queue
       ELSE /\ ui' = [ui EXCEPT !.pc = "status", !.ret = Some(FALSE)]
            /\ status_queue' = Append(status_queue, Status(thread, "error", "msg"))
    /\ UNCHANGED <<running, thread, result_queue, current_report_dir, workers,
                   managerVars, session, hist>>

\* run_browser_automation without the test of the flag
Call_Unguarded ==
    /\ ui.pc = "call"
    /\ ui' = [ui EXCEPT !.pc = "start"]
    /\ UNCHANGED <<runnerVars, managerVars, session, hist>>

\* run_browser_automation, line 1105: the flag is read; line 1110 and
\* line 1784 when it is set
Call ==
    /\ ui.pc = "call"
    /\ IF ~running
       THEN ui' = [ui EXCEPT !.pc = "start"]
       ELSE ui' = [ui EXCEPT !.pc = "status", !.ret = Some(FALSE)]
    /\ UNCHANGED <<runnerVars, managerVars, session, hist>>

\* run_browser_automation, lines 1106-1109, then lines 1780-1782
Start ==
    /\ ui.pc = "start"
    /\ thread < MaxRuns
    /\ running' = TRUE
    /\ thread' = thread + 1
    /\ workers' = [workers EXCEPT ![thread + 1] =
                      [NewWorker EXCEPT !.pc = "init", !.test_data = ui.test_data]]
    /\ session' = [session EXCEPT !.automation_result = Nil]
    /\ hist' = [hist EXCEPT !.csv_runs =
                   IF ~session.use_faker /\ csv_data.loaded THEN @ + 1 ELSE @]
    /\ ui' = Rerun("none")
    /\ UNCHANGED <<status_queue, result_queue, current_report_dir, managerVars>>

\* get_status, lines 1278-1283, as lines 1788-1790 / 2068-2070 use it
PollStatus ==
    /\ ui.pc = "status"
    /\ IF status_queue # <<>>
       THEN /\ session' = [session EXCEPT !.automation_status = Some(Head(status_queue))]
            /\ status_queue' = Tail(status_queue)
       ELSE UNCHANGED <<session, status_queue>>
    /\ ui' = [ui EXCEPT !.pc = "result"]
    /\ UNCHANGED <<running, thread, result_queue, current_report_dir, workers,
                   managerVars, hist>>

\* get_result, lines 1422-1427, as lines 1799-1938 / 2079-2218 use it
PollResult ==
    /\ ui.pc = "result"
    /\ IF result_queue # <<>>
       THEN LET result == Head(result_queue) IN
            /\ result_queue' = Tail(result_queue)
            /\ session' = IF result.success
                          THEN [session EXCEPT !.automation_result = Some(result)]
                          ELSE session
            /\ hist' = [hist EXCEPT !.retrieved = @ \cup {result.run}]
            /\ ui' = Rerun("none")
       ELSE /\ ui' = AfterTab(ui.tab)
            /\ UNCHANGED <<result_queue, session, hist>>
    /\ UNCHANGED <<running, thread, status_queue, current_report_dir, workers,
                   managerVars>>

\* lines 2260-2263: the flag is read; when it is set the script sleeps a
\* second and reruns, otherwise it ends and the page waits for the user
Live ==
    /\ ui.pc = "live"
    /\ ui' = IF running THEN Rerun("none")
             ELSE [ui EXCEPT !.pc = "idle", !.click = "none"]
    /\ UNCHANGED <<runnerVars, managerVars, session, hist>>

\* --------------------------------------------------------- specification
\* BrowserTestRunner.__init__ (lines 914-919), TestDataManager.__init__
\* (lines 49-52) and the session of main() (lines 1434-1441) with an issue
\* created in tab 1, the data source use_faker and the file f in the
\* uploader
InitUI(use_faker, f) ==
    /\ running = FALSE
    /\ thread = 0
    /\ status_queue = <<>>
    /\ result_queue = <<>>
    /\ current_report_dir = 0
    /\ workers = [r \in Runs |-> NewWorker]
    /\ csv_data = NoCsv
    /\ current_row_index = 0
    /\ session = [use_faker |-> use_faker, uploaded |-> f,
                  created |-> TRUE, fetched |-> FALSE,
                  deepseek_api_key |-> TRUE, csv_rows_tested |-> 0,
                  automation_status |-> Nil, automation_result |-> Nil,
                  shown |-> {}]
    /\ ui = Rerun("none")
    /\ hist = [csv_runs |-> 0, retrieved |-> {},
               results |-> [r \in Runs |-> 0]]
    /\ FAKER_AVAILABLE = TRUE
    /\ call = NoCall

\* the page as it starts: generated (Faker) test data, line 1518
Init == InitUI(TRUE, NoFile)

\* the page in CSV mode with a file of 0..UiRows rows in the uploader
InitCsv == \E n \in 0..UiRows : InitUI(FALSE, [kind |-> "csv", n |-> n])

Worker == \E r \in Runs : WorkerStep(r)

Script == Sidebar \/ TabBlock \/ Call \/ Start \/ PollStatus \/ PollResult
          \/ Live

Next == (Worker \/ UserClick \/ Script) /\ UNCHANGED <<FAKER_AVAILABLE, call>>

Spec == Init /\ [][Next]_vars

SpecCsv == InitCsv /\ [][Next]_vars

\* ------------------------------------- TestDataManager exercised directly
\* the objects the UI model uses stay as constructed
uiFrame == <<runnerVars, session, ui>>

\* row_index arguments: None and a range that goes past both ends of the
\* largest frame
RowIndexes == {Nil} \cup {Some(k) : k \in (0 - MaxRows)..(2 * MaxRows)}
DataModes == {"faker", "csv", "other"}

DataCall(op, file, feature_type, data_mode, row_index, row, ret, ok) ==
    [op |-> op, file |-> file, feature_type |-> feature_type,
     data_mode |-> data_mode, row_index |-> row_index,
     row |-> row, ret |-> ret, ok |-> ok,
     pre_csv |-> csv_data, pre_cur |-> current_row_index,
     pre_advanced |-> hist.advanced]
NoRet == [source |-> "", data |-> EmptyDict, row_index |-> Nil, feature_type |-> Nil]

\* manager.load_csv_data(file)
DLoad ==
    \E f \in Files :
        LET l == load_csv_data(csv_data, current_row_index, f) IN
        /\ csv_data' = l.csv
        /\ current_row_index' = l.cur
        /\ hist' = [hist EXCEPT !.advanced = IF l.ok THEN 0 ELSE @]
        /\ call' = DataCall("load", f, "", "", Nil, EmptyDict, NoRet, l.ok)
        /\ UNCHANGED <<uiFrame, FAKER_AVAILABLE>>

\* whether a call with this row_index moves the cursor of the frame
Advances(csv, row_index) == csv.loaded /\ Len(csv.rows) > 0 /\ IsNil(row_index)

\* manager.get_csv_data_row(row_index)
DRow ==
    \E ri \in RowIndexes :
        LET r == get_csv_data_row(csv_data, current_row_index, ri) IN
        /\ Advances(csv_data, ri) => hist.advanced < MaxCalls
        /\ current_row_index' = r.cur
        /\ hist' = [hist EXCEPT !.advanced =
                       IF Advances(csv_data, ri) THEN @ + 1 ELSE @]
        /\ call' = DataCall("row", NoFile, "", "", ri, r.row, NoRet, TRUE)
        /\ UNCHANGED <<uiFrame, csv_data, FAKER_AVAILABLE>>

\* manager.get_test_data(feature_type, data_mode, row_index)
DData ==
    \E ft \in {"login", "generic"}, mode \in DataModes, ri \in RowIndexes :
        LET d == get_test_data(csv_data, current_row_index, FAKER_AVAILABLE,
                               ft, mode, ri)
            adv == mode = "csv" /\ Advances(csv_data, ri)
        IN
        /\ adv => hist.advanced < MaxCalls
        /\ current_row_index' = d.cur
        /\ hist' = [hist EXCEPT !.advanced = IF adv THEN @ + 1 ELSE @]
        /\ call' = DataCall("data", NoFile, ft, mode, ri, d.ret.data, d.ret, TRUE)
        /\ UNCHANGED <<uiFrame, csv_data, FAKER_AVAILABLE>>

\* a fresh TestDataManager (lines 49-52), with or without the faker library
InitData ==
    /\ running = FALSE
    /\ thread = 0
    /\ status_queue = <<>>
    /\ result_queue = <<>>
    /\ current_report_dir = 0
    /\ workers = [r \in Runs |-> NewWorker]
    /\ session = [use_faker |-> TRUE]
    /\ ui = [pc |-> "none"]
    /\ csv_data = NoCsv
    /\ current_row_index = 0
    /\ hist = [advanced |-> 0]
    /\ FAKER_AVAILABLE \in BOOLEAN
    /\ call = NoCall

NextData == DLoad \/ DRow \/ DData

SpecData == InitData /\ [][NextData]_vars

\* ------------------------------------------------- detect_feature_type
\* A Python str is the sequence of its characters.
UpperCase == <<"A", "B", "C", "D", "E", "F", "G", "H", "I", "J", "K", "L", "M",
               "N", "O", "P", "Q", "R", "S", "T", "U", "V", "W", "X", "Y", "Z">>
LowerCase == <<"a", "b", "c", "d", "e", "f", "g", "h", "i", "j", "k", "l", "m",
               "n", "o", "p", "q", "r", "s", "t", "u", "v", "w", "x", "y", "z">>

\* str.lower()
lower(str) ==
    [i \in 1..Len(str) |->
        IF \E k \in 1..26 : UpperCase[k] = str[i]
        THEN LowerCase[CHOOSE k \in 1..26 : UpperCase[k] = str[i]]
        ELSE str[i]]

\* keyword in text
Contains(text, keyword) ==
    \E i \in 1..(Len(text) - Len(keyword) + 1) :
        SubSeq(text, i, i + Len(keyword) - 1) = keyword

\* any(keyword in text for keyword in keywords)
any(text, keywords) == \E keyword \in keywords : Contains(text, keyword)

\* line 58
LoginKeywords ==
    {<<"l", "o", "g", "i", "n">>,
     <<"s", "i", "g", "n", "i", "n">>,
     <<"a", "u", "t", "h">>,
     <<"p", "a", "s", "s", "w", "o", "r", "d">>,
     <<"c", "r", "e", "d", "e", "n", "t", "i", "a", "l">>}
\* line 60
RegistrationKeywords ==
    {<<"r", "e", "g", "i", "s", "t", "e", "r">>,
     <<"s", "i", "g", "n", "u", "p">>,
     <<"c", "r", "e", "a", "t", "e", " ", "a", "c", "c", "o", "u", "n", "t">>,
     <<"n", "e", "w", " ", "u", "s", "e", "r">>}
\* line 62
ProductKeywords ==
    {<<"p", "r", "o", "d", "u", "c", "t">>,
     <<"c", "a", "t", "a", "l", "o", "g">>,
     <<"i", "t", "e", "m">>,
     <<"i", "n", "v", "e", "n", "t", "o", "r", "y">>,
     <<"s", "h", "o", "p">>,
     <<"b", "u", "y">>}
\* line 64
SearchKeywords ==
    {<<"s", "e", "a", "r", "c", "h">>,
     <<"f", "i", "n", "d">>,
     <<"q", "u", "e", "r", "y">>,
     <<"f", "i", "l", "t", "e", "r">>}
\* line 66
ContactKeywords ==
    {<<"c", "o", "n", "t", "a", "c", "t">>,
     <<"f", "e", "e", "d", "b", "a", "c", "k">>,
     <<"s", "u", "p", "p", "o", "r", "t">>,
     <<"m", "e", "s", "s", "a", "g", "e">>}
\* line 68
PaymentKeywords ==
    {<<"p", "a", "y", "m", "e", "n", "t">>,
     <<"c", "h", "e", "c", "k", "o", "u", "t">>,
     <<"b", "i", "l", "l", "i", "n", "g">>,
     <<"c", "a", "r", "d">>}
\* line 70
ProfileKeywords ==
    {<<"p", "r", "o", "f", "i", "l", "e">>,
     <<"a", "c", "c", "o", "u", "n", "t">>,
     <<"s", "e", "t", "t", "i", "n", "g", "s">>,
     <<"p", "r", "e", "f", "e", "r", "e", "n", "c", "e", "s">>}

\* detect_feature_type that tests product before registration
detect_feature_type_Reordered(title, description) ==
    LET text == lower(title \o <<" ">> \o description) IN
    IF any(text, LoginKeywords) THEN "login"
    ELSE IF any(text, ProductKeywords) THEN "product"
    ELSE IF any(text, RegistrationKeywords) THEN "registration"
    ELSE IF any(text, SearchKeywords) THEN "search"
    ELSE IF any(text, ContactKeywords) THEN "contact"
    ELSE IF any(text, PaymentKeywords) THEN "payment"
    ELSE IF any(text, ProfileKeywords) THEN "profile"
    ELSE "generic"

\* lines 54-73
detect_feature_type(title, description) ==
    LET text == lower(title \o <<" ">> \o description) IN
    IF any(text, LoginKeywords) THEN "login"
    ELSE IF any(text, RegistrationKeywords) THEN "registration"
    ELSE IF any(text, ProductKeywords) THEN "product"
    ELSE IF any(text, SearchKeywords) THEN "search"
    ELSE IF any(text, ContactKeywords) THEN "contact"
    ELSE IF any(text, PaymentKeywords) THEN "payment"
    ELSE IF any(text, ProfileKeywords) THEN "profile"
    ELSE "generic"

\* titles and descriptions to classify
Texts ==
    {<<>>,
     <<"L", "o", "g", "i", "n", " ", "p", "a", "g", "e">>,
     <<"S", "I", "G", "N", "I", "N">>,
     <<"A", "u", "t", "h", "o", "r">>,
     <<"l", "o", "g">>,
     <<"i", "n">>,
     <<"R", "e", "g", "i", "s", "t", "e", "r">>,
     <<"c", "r", "e", "a", "t", "e">>,
     <<"a", "c", "c", "o", "u", "n", "t">>,
     <<"C", "r", "e", "a", "t", "e", " ", "A", "c", "c", "o", "u", "n", "t">>,
     <<"n", "e", "w">>,
     <<"u", "s", "e", "r">>,
     <<"S", "h", "o", "p">>,
     <<"i", "t", "e", "m">>,
     <<"F", "i", "n", "d">>,
     <<"C", "o", "n", "t", "a", "c", "t", " ", "u", "s">>,
     <<"C", "a", "r", "d">>,
     <<"c", "h", "e", "c", "k", "o", "u", "t">>,
     <<"P", "r", "o", "f", "i", "l", "e">>,
     <<"s", "e", "t", "t", "i", "n", "g", "s">>,
     <<"p", "a", "g", "e">>}

\* detect_feature_type(title, description) is called
Detect ==
    \E title \in Texts, description \in Texts :
        /\ call' = [op |-> "detect", title |-> title, description |-> description,
                    ret |-> detect_feature_type(title, description)]
        /\ UNCHANGED <<runnerVars, managerVars, session, ui, hist, FAKER_AVAILABLE>>

InitPure ==
    /\ running = FALSE
    /\ thread = 0
    /\ status_queue = <<>>
    /\ result_queue = <<>>
    /\ current_report_dir = 0
    /\ workers = [r \in Runs |-> NewWorker]
    /\ session = [use_faker |-> TRUE]
    /\ ui = [pc |-> "none"]
    /\ csv_data = NoCsv
    /\ current_row_index = 0
    /\ hist = [advanced |-> 0]
    /\ FAKER_AVAILABLE = TRUE
    /\ call = NoCall

SpecDetect == InitPure /\ [][Detect]_vars

\* ------------------------------------------------- the JIRA REST wrappers
\* What the one HTTP request of a call meets: requests.get/post raises
\* (raises), or answers with a status code and a body.  body says what
\* response.json() and the lookups in it do:
\*   "not_json"  response.json() raises
\*   "missing"   the JSON lacks the key the function reads
\*               (data["key"], data["fields"]["summary"], it["name"])
\*   "bare"      the JSON has the required key and nothing optional
\*               (no issueTypes, no description)
\*   "text"      a plain-text description / a list of issue types
\*   "adf"       an ADF description with text blocks
\*   "adf_empty" an ADF description without any text
StatusCodes == {200, 201, 204, 400, 401, 404, 500}
Bodies == {"not_json", "missing", "bare", "text", "adf", "adf_empty"}
Responses == [raises : BOOLEAN, status : StatusCodes, body : Bodies]

\* feature titles given to create_jira_issue
Titles == {<<"L", "o", "g", "i", "n", " ", "p", "a", "g", "e">>, <<"O", "A", "u", "t", "h">>, <<"S", "e", "a", "r", "c", "h">>}

\* what a wrapper returns: the data (None is Nil), the error message (None
\* is Nil), and how many HTTP requests it made
JiraRet(first, second, error, requests) ==
    [first |-> first, second |-> second, error |-> error, requests |-> requests]

\* lines 674-683
get_issue_types(resp) ==
    IF resp.raises
    THEN JiraRet(<<>>, Nil, Some("Exception occurred: "), 1)
    ELSE IF resp.status = 200
    THEN IF resp.body \in {"not_json", "missing"}
         THEN JiraRet(<<>>, Nil, Some("Exception occurred: "), 1)
         ELSE JiraRet(IF resp.body = "bare" THEN <<>> ELSE <<"Task", "Bug">>,
                      Nil, Nil, 1)
    ELSE JiraRet(<<>>, Nil, Some("Error fetching issue types: "), 1)

\* line 718: the labels of the payload
labels(feature_title) ==
    IF Contains(lower(feature_title), <<"a", "u", "t", "h">>)
       \/ Contains(lower(feature_title), <<"l", "o", "g", "i", "n">>)
    THEN <<"feature", "authentication">>
    ELSE <<"feature">>

\* create_jira_issue that takes 200 for success as the GET wrappers do
create_jira_issue_Accept200(feature_title, resp) ==
    LET payload == [summary |-> feature_title, labels |-> labels(feature_title)] IN
    IF resp.raises
    THEN JiraRet(Nil, Nil, Some("Exception occurred: "), 1)
    ELSE IF resp.status \in {200, 201}
    THEN IF resp.body \in {"not_json", "missing"}
         THEN JiraRet(Nil, Nil, Some("Exception occurred: "), 1)
         ELSE JiraRet(Some("KEY-1"), Some(payload), Nil, 1)
    ELSE JiraRet(Nil, Nil, Some("Error creating issue: "), 1)

\* lines 695-732
create_jira_issue(feature_title, resp) ==
    LET payload == [summary |-> feature_title, labels |-> labels(feature_title)] IN
    IF resp.raises
    THEN JiraRet(Nil, Nil, Some("Exception occurred: "), 1)
    ELSE IF resp.status = 201
    THEN IF resp.body \in {"not_json", "missing"}
         THEN JiraRet(Nil, Nil, Some("Exception occurred: "), 1)
         ELSE JiraRet(Some("KEY-1"), Some(payload), Nil, 1)
    ELSE JiraRet(Nil, Nil, Some("Error creating issue: "), 1)

\* lines 746-763: the description of a fetched issue
description_of(body) ==
    CASE body = "text" -> "plain text"
      [] body = "adf" -> "joined text blocks"
      [] OTHER -> "No description available"

\* lines 740-770
fetch_jira_issue(resp) ==
    IF resp.raises
    THEN JiraRet(Nil, Nil, Some("Exception occurred: "), 1)
    ELSE IF resp.status = 200
    THEN IF resp.body \in {"not_json", "missing"}
         THEN JiraRet(Nil, Nil, Some("Exception occurred: "), 1)
         ELSE JiraRet(Some("summary"), Some(description_of(resp.body)), Nil, 1)
    ELSE JiraRet(Nil, Nil, Some("Error fetching issue: "), 1)

jiraFrame == <<runnerVars, managerVars, session, ui, hist, FAKER_AVAILABLE>>

\* get_issue_types(base_url, username, api_key, project_key) is called
GetIssueTypes ==
    \E resp \in Responses :
        /\ call' = [op |-> "get_issue_types", title |-> <<>>, resp |-> resp,
                    ret |-> get_issue_types(resp)]
        /\ UNCHANGED jiraFrame

\* create_jira_issue(...) is called
CreateJiraIssue ==
    \E resp \in Responses, title \in Titles :
        /\ call' = [op |-> "create_jira_issue", title |-> title, resp |-> resp,
                    ret |-> create_jira_issue(title, resp)]
        /\ UNCHANGED jiraFrame

\* fetch_jira_issue(base_url, username, api_key, issue_id) is called
FetchJiraIssue ==
    \E resp \in Responses :
        /\ call' = [op |-> "fetch_jira_issue", title |-> <<>>, resp |-> resp,
                    ret |-> fetch_jira_issue(resp)]
        /\ UNCHANGED jiraFrame

NextJira == GetIssueTypes \/ CreateJiraIssue \/ FetchJiraIssue

SpecJira == InitPure /\ [][NextJira]_vars

\* ------------------------------------------------- the generated test case
\* generate_feature_specific_steps: the canned steps, named by their first
\* step; any type without a branch of its own gets the generic steps
generate_feature_specific_steps(feature_type) ==
    CASE feature_type = "login" -> "1. Navigate to the login page"
      [] feature_type = "registration" -> "1. Navigate to the registration page"
      [] feature_type = "product" -> "1. Navigate to the product catalog/search page"
      [] feature_type = "search" -> "1. Navigate to the search functionality"
      [] feature_type = "contact" -> "1. Navigate to the contact/feedback form"
      [] feature_type = "payment" -> "1. Navigate to the payment/checkout page"
      [] feature_type = "profile" -> "1. Navigate to the user profile page"
      [] OTHER -> "1. Navigate to the relevant page/section"

\* bool(d) of a dict of field values
NonEmptyDict(d) == d.kind # "empty"

\* generate_test_case: the parts of the text that depend on test_data.
\* test_data is None (Nil) or the record of get_test_data, which is never
\* an empty dict; the feature type is the record's 'feature_type' key and
\* 'generic' when the record has no such key.
generate_test_case(test_data) ==
    LET feature_type ==
            IF IsNil(test_data) THEN "generic"
            ELSE IF IsNil(Val(test_data).feature_type) THEN "generic"
            ELSE Val(Val(test_data).feature_type)
    IN  [test_data_section |->
             IF ~IsNil(test_data) /\ NonEmptyDict(Val(test_data).data)
             THEN Some(Val(test_data).source) ELSE Nil,
         steps |-> generate_feature_specific_steps(feature_type),
         feature_type |-> feature_type,
         included |-> ~IsNil(test_data)]

\* summaries and descriptions of the issue on the page
IssueTexts ==
    {<<"L", "o", "g", "i", "n", " ", "p", "a", "g", "e">>,
     <<"R", "e", "g", "i", "s", "t", "e", "r">>,
     <<"S", "h", "o", "p">>,
     <<"F", "i", "n", "d">>,
     <<"C", "a", "r", "d">>,
     <<"p", "a", "g", "e">>}

\* the sidebar loads the uploaded file into the manager
GenLoad ==
    \E f \in Files :
        LET l == load_csv_data(csv_data, current_row_index, f) IN
        /\ csv_data' = l.csv
        /\ current_row_index' = l.cur
        /\ call' = [op |-> "load", ok |-> l.ok]
        /\ UNCHANGED <<uiFrame, hist, FAKER_AVAILABLE>>

\* the page shows the test case of the issue: detect_feature_type, then
\* get_test_data in the mode of the radio button, then generate_test_case
GenerateTestCase ==
    \E summary \in IssueTexts, description \in IssueTexts, use_faker \in BOOLEAN :
        LET feature_type == detect_feature_type(summary, description)
            test_data_mode == IF use_faker THEN "faker" ELSE "csv"
            d == get_test_data(csv_data, current_row_index, FAKER_AVAILABLE,
                               feature_type, test_data_mode, Nil)
        IN
        /\ current_row_index' = d.cur
        /\ call' = [op |-> "generate", summary |-> summary,
                    description |-> description, use_faker |-> use_faker,
                    test_data |-> d.ret,
                    test_case |-> generate_test_case(Some(d.ret))]
        /\ UNCHANGED <<uiFrame, csv_data, hist, FAKER_AVAILABLE>>

NextGen == GenLoad \/ GenerateTestCase

SpecGen == InitData /\ [][NextGen]_vars

\* ------------------------------------------------------- verify_setup.py
\* the required modules of main, in the order they are checked
modules == <<"streamlit", "requests", "dotenv", "browser_use", "playwright",
             "anthropic", "openai", "aiohttp", "bs4", "PIL">>

\* What check_module meets: find_spec returns a spec and the import works
\* ("found"), find_spec returns None ("none"), find_spec raises
\* ("find_raises"), or import_module raises an Exception ("import_raises").
ModuleOutcomes == {"found", "none", "find_raises", "import_raises"}

\* check_module: the (success, message) pair
check_module(module_name, outcome) ==
    CASE outcome = "none" ->
             [success |-> FALSE, message |-> <<"not found", module_name>>]
      [] outcome \in {"find_raises", "import_raises"} ->
             [success |-> FALSE, message |-> <<"error", module_name>>]
      [] OTHER -> [success |-> TRUE, message |-> <<"ok", module_name>>]

\* What check_playwright_browsers meets: the import or sync_playwright()
\* raises ("fails"), executable_path raises ("no_browsers"), or neither.
BrowserOutcomes == {"ok", "no_browsers", "fails"}

check_playwright_browsers(outcome) ==
    CASE outcome = "fails" -> [success |-> FALSE, message |-> "check failed"]
      [] outcome = "no_browsers" -> [success |-> FALSE, message |-> "not installed"]
      [] OTHER -> [success |-> TRUE, message |-> "installed"]

\* The path .env: os.path.exists says whether there is one; open() and
\* read() work on a readable text file and raise on a directory, a file
\* without read permission or bytes that do not decode; deepseek and jira
\* say whether the two key names occur in the content.
NoEnv == [exists |-> FALSE, readable |-> FALSE, deepseek |-> FALSE, jira |-> FALSE]
EnvFiles ==
    {NoEnv} \cup
    {[exists |-> TRUE, readable |-> r, deepseek |-> d, jira |-> j] :
        r \in BOOLEAN, d \in BOOLEAN, j \in BOOLEAN}

verifyFrame == <<runnerVars, managerVars, session, ui, hist, FAKER_AVAILABLE>>

\* main starts: the header is printed, all_good = True
VMain ==
    /\ call.op = "none"
    /\ call' = [op |-> "verify", pc |-> "modules", i |-> 1, all_good |-> TRUE,
                failed |-> {}, outcome |-> "", ret |-> check_module("", "found"),
                browsers |-> Nil, env |-> NoEnv, printed |-> Nil]
    /\ UNCHANGED verifyFrame

\* one turn of the loop over modules (lines 59-63)
VCheckModule ==
    /\ call.op = "verify" /\ call.pc = "modules"
    /\ \E outcome \in ModuleOutcomes :
         LET r == check_module(modules[call.i], outcome) IN
         call' = [call EXCEPT
                     !.outcome = outcome,
                     !.ret = r,
                     !.all_good = IF ~r.success THEN FALSE ELSE @,
                     !.failed = IF ~r.success THEN @ \cup {call.i} ELSE @,
                     !.i = @ + 1,
                     !.pc = IF call.i = Len(modules) THEN "browsers" ELSE @]
    /\ UNCHANGED verifyFrame

\* lines 65-69
VCheckBrowsers ==
    /\ call.op = "verify" /\ call.pc = "browsers"
    /\ \E outcome \in BrowserOutcomes :
         LET r == check_playwright_browsers(outcome) IN
         call' = [call EXCEPT
                     !.browsers = Some(r.success),
                     !.all_good = IF ~r.success THEN FALSE ELSE @,
                     !.pc = "env"]
    /\ UNCHANGED verifyFrame

\* lines 71-91: the configuration file.  open() or read() raising is not
\* caught: main ends with the exception.
VCheckEnv ==
    /\ call.op = "verify" /\ call.pc = "env"
    /\ \E env \in EnvFiles :
         call' = [call EXCEPT
                     !.env = env,
                     !.all_good =
                         IF ~env.exists THEN FALSE
                         ELSE IF ~env.readable THEN @
                         ELSE IF ~env.deepseek \/ ~env.jira THEN FALSE
                         ELSE @,
                     !.pc = IF env.exists /\ ~env.readable THEN "raised"
                            ELSE "summary"]
    /\ UNCHANGED verifyFrame

\* lines 93-99
VSummary ==
    /\ call.op = "verify" /\ call.pc = "summary"
    /\ call' = [call EXCEPT
                   !.printed = IF call.all_good THEN Some("all") ELSE Some("some"),
                   !.pc = "done"]
    /\ UNCHANGED verifyFrame

NextVerify == VMain \/ VCheckModule \/ VCheckBrowsers \/ VCheckEnv \/ VSummary

SpecVerify == InitPure /\ [][NextVerify]_vars

\* ------------------------- run_browser_automation called from two threads
\* Two threads call run_browser_automation on the one runner.  Each goes
\* through lines 1105-1110 a statement at a time:
\*   "check"   line 1105, self.running is read
\*   "set"     line 1106, self.running = True
\*   "create"  line 1107, a Thread is made around the closure of this call
\*             and assigned to self.thread
\*   "start"   line 1108, self.thread is read and start() called on it;
\*             line 1109, return True
\* call.callers holds where each caller is, the test_data it passed and
\* what its call returned; call.created counts the Thread objects made,
\* the k-th being workers[k]; thread = k says self.thread is the k-th;
\* call.closure[k] is the test_data its run_in_thread closes over.
Callers == {1, 2}
MaxBacklog == 2     \* statuses on the queue, which no one reads here

\* the test_data argument of a call
RaceArgs ==
    {Nil, Some(get_test_data(NoCsv, 0, TRUE, "generic", "faker", Nil).ret)}

InCall(c) == call.callers[c].pc \in {"check", "set", "create", "start"}
Returned(c) == call.callers[c].pc \in {"ret", "raised"}

\* a thread enters run_browser_automation
RaceCall ==
    \E c \in Callers, test_data \in RaceArgs :
        /\ call.callers[c].pc = "idle"
        /\ call' = [call EXCEPT
                       !.callers[c] = [@ EXCEPT !.pc = "check", !.test_data = test_data,
                                                !.entered_clear = ~running],
                       !.overlap = @ \/ \E d \in Callers \ {c} : InCall(d)]
        /\ UNCHANGED <<runnerVars, managerVars, session, ui, hist, FAKER_AVAILABLE>>

\* a check that lets the caller through when the flag is set
RaceCheck_Inverted ==
    \E c \in Callers :
        /\ call.callers[c].pc = "check"
        /\ call' = IF running
                   THEN [call EXCEPT !.callers[c].pc = "set"]
                   ELSE [call EXCEPT !.callers[c].pc = "ret",
                                     !.callers[c].ret = Some(FALSE)]
        /\ UNCHANGED <<runnerVars, managerVars, session, ui, hist, FAKER_AVAILABLE>>

\* line 1105, and line 1110 when the flag is set
RaceCheck ==
    \E c \in Callers :
        /\ call.callers[c].pc = "check"
        /\ call' = IF ~running
                   THEN [call EXCEPT !.callers[c].pc = "set"]
                   ELSE [call EXCEPT !.callers[c].pc = "ret",
                                     !.callers[c].ret = Some(FALSE)]
        /\ UNCHANGED <<runnerVars, managerVars, session, ui, hist, FAKER_AVAILABLE>>

\* line 1106
RaceSet ==
    \E c \in Callers :
        /\ call.callers[c].pc = "set"
        /\ running' = TRUE
        /\ call' = [call EXCEPT !.callers[c].pc = "create"]
        /\ UNCHANGED <<thread, status_queue, result_queue, current_report_dir,
                       workers, managerVars, session, ui, hist, FAKER_AVAILABLE>>

\* line 1107
RaceCreate ==
    \E c \in Callers :
        /\ call.callers[c].pc = "create"
        /\ call.created < MaxRuns
        /\ thread' = call.created + 1
        /\ call' = [call EXCEPT !.callers[c].pc = "start",
                                !.created = @ + 1,
                                !.closure[call.created + 1] = call.callers[c].test_data]
        /\ UNCHANGED <<running, status_queue, result_queue, current_report_dir,
                       workers, managerVars, session, ui, hist, FAKER_AVAILABLE>>

\* lines 1108-1109: start() of a Thread that was started before raises
\* RuntimeError, which leaves the call
RaceStart ==
    \E c \in Callers :
        /\ call.callers[c].pc = "start"
        /\ IF workers[thread].pc = "new"
           THEN /\ workers' = [workers EXCEPT ![thread] =
                                  [NewWorker EXCEPT !.pc = "init",
                                                    !.test_data = call.closure[thread]]]
                /\ call' = [call EXCEPT !.callers[c].pc = "ret",
                                        !.callers[c].ret = Some(TRUE)]
           ELSE /\ call' = [call EXCEPT !.callers[c].pc = "raised"]
                /\ UNCHANGED workers
        /\ UNCHANGED <<running, thread, status_queue, result_queue,
                       current_report_dir, managerVars, session, ui, hist,
                       FAKER_AVAILABLE>>

\* a started thread runs run_in_thread
RaceWorker ==
    /\ \E r \in Runs : WorkerStep(r)
    /\ Len(status_queue') <= MaxBacklog
    /\ UNCHANGED <<FAKER_AVAILABLE, call>>

\* a fresh runner (lines 914-919) and two threads about to call it
InitRace ==
    /\ running = FALSE
    /\ thread = 0
    /\ status_queue = <<>>
    /\ result_queue = <<>>
    /\ current_report_dir = 0
    /\ workers = [r \in Runs |-> NewWorker]
    /\ csv_data = NoCsv
    /\ current_row_index = 0
    /\ session = [use_faker |-> TRUE]
    /\ ui = [pc |-> "none"]
    /\ hist = [results |-> [r \in Runs |-> 0]]
    /\ FAKER_AVAILABLE = TRUE
    /\ call = [op |-> "race",
               callers |-> [c \in Callers |->
                               [pc |-> "idle", test_data |-> Nil, ret |-> Nil,
                                entered_clear |-> FALSE]],
               created |-> 0,
               closure |-> [r \in Runs |-> Nil],
               overlap |-> FALSE]

NextRace == RaceCall \/ RaceCheck \/ RaceSet \/ RaceCreate \/ RaceStart
            \/ RaceWorker

SpecRace == InitRace /\ [][NextRace]_vars

\* --------------------------------------------- generate_playwright_scripts
\* The method run a statement at a time on a runner, with what is under
\* <report dir>/playwright_tests in call.files.  An entry of the directory
\* is [dir, kind, name]: the spec file (kind "spec", named after the test)
\* at the root or under tests/, or one of the fixed names at the root.
SpecFile(dir, name) == [dir |-> dir, kind |-> "spec", name |-> name]
RootEntry(kind) == [dir |-> "root", kind |-> kind, name |-> <<>>]

\* str.replace(old, new) on one-character old and new
replace(str, old, new) ==
    [i \in 1..Len(str) |-> IF str[i] = old THEN new ELSE str[i]]

\* line 1301
test_file_name(test_name) ==
    replace(replace(lower(test_name), " ", "_"), "-", "_")
        \o <<".", "s", "p", "e", "c", ".", "t", "s">>

\* the test_name arguments: the default of line 1077, the name line 1080
\* makes of a feature type, and one with a hyphen
TestNames ==
    {<<"A", "u", "t", "o", " ", "G", "e", "n", "e", "r", "a", "t", "e", "d", " ", "T", "e", "s", "t">>,
     <<"L", "o", "g", "i", "n", " ", "F", "e", "a", "t", "u", "r", "e", " ", "T", "e", "s", "t">>,
     <<"S", "i", "g", "n", "-", "U", "p", " ", "T", "e", "s", "t">>}

\* the test_data arguments: None, a faker record, a csv record
ScriptData ==
    {Nil,
     Some(get_test_data(NoCsv, 0, TRUE, "login", "faker", Nil).ret),
     Some(get_test_data(Frame(1), 0, TRUE, "login", "csv", Nil).ret)}

\* lines 1303-1399: the entries made one after the other, each by the
\* statement at its pc
WriteSteps(name) ==
    <<[pc |-> "write_test", entry |-> SpecFile("root", name)],
      [pc |-> "write_package", entry |-> RootEntry("package.json")],
      [pc |-> "write_config", entry |-> RootEntry("playwright.config.ts")],
      [pc |-> "write_readme", entry |-> RootEntry("README.md")],
      [pc |-> "mkdir_tests", entry |-> RootEntry("tests/")],
      [pc |-> "write_final", entry |-> SpecFile("tests", name)]>>

\* lines 1404-1413: the record returned
ScriptsRecord(name) ==
    [kind |-> "record",
     files_created |-> <<SpecFile("tests", name), RootEntry("package.json"),
                         RootEntry("playwright.config.ts"), RootEntry("README.md")>>]
\* line 1415: the dict of generate_optimized_test_suite as it is
SuiteOnly == [kind |-> "suite", files_created |-> <<>>]
\* line 1420
ReturnsNone == [kind |-> "None", files_created |-> <<>>]
NotReturned == [kind |-> "", files_created |-> <<>>]

scriptsFrame == <<running, thread, result_queue, current_report_dir, workers,
                  managerVars, session, ui, hist, FAKER_AVAILABLE>>

\* generate_playwright_scripts(automation_result, test_name, test_url,
\* test_data) is called
GCall ==
    \E test_name \in TestNames, test_data \in ScriptData :
        /\ call.op = "none"
        /\ call' = [op |-> "scripts", pc |-> "enter", test_name |-> test_name,
                    test_data |-> test_data, files |-> {}, ret |-> NotReturned,
                    raised_at |-> ""]
        /\ UNCHANGED <<status_queue, scriptsFrame>>

\* line 1288
GEnter ==
    /\ call.op = "scripts" /\ call.pc = "enter"
    /\ status_queue' = Append(status_queue, Status(current_report_dir, "pw", ""))
    /\ call' = [call EXCEPT !.pc = "suite"]
    /\ UNCHANGED scriptsFrame

\* lines 1291-1296: generate_optimized_test_suite returns its dict or
\* raises (a key of test_data['data'] that is not a string has no
\* lower()); line 1415 when there is no report directory
GSuite ==
    /\ call.op = "scripts" /\ call.pc = "suite"
    /\ \/ call' = [call EXCEPT !.pc = IF current_report_dir # 0 THEN "mkdir" ELSE "returned",
                               !.ret = IF current_report_dir # 0 THEN @ ELSE SuiteOnly]
       \/ call' = [call EXCEPT !.pc = "except", !.raised_at = "suite"]
    /\ UNCHANGED <<status_queue, scriptsFrame>>

\* lines 1297-1298
GMkdir ==
    /\ call.op = "scripts" /\ call.pc = "mkdir"
    /\ \/ call' = [call EXCEPT !.pc = "write_test"]
       \/ call' = [call EXCEPT !.pc = "except", !.raised_at = "mkdir"]
    /\ UNCHANGED <<status_queue, scriptsFrame>>

\* write_text / mkdir of one entry: it is made, or the statement raises
\* with the entry made (a file opened and not written in full) or not
GWrite ==
    /\ call.op = "scripts"
    /\ LET steps == WriteSteps(test_file_name(call.test_name)) IN
       \E i \in DOMAIN steps :
          /\ call.pc = steps[i].pc
          /\ \/ call' = [call EXCEPT
                            !.files = @ \cup {steps[i].entry},
                            !.pc = IF i < Len(steps) THEN steps[i + 1].pc ELSE "unlink"]
             \/ \E made \in BOOLEAN :
                   call' = [call EXCEPT
                               !.files = IF made THEN @ \cup {steps[i].entry} ELSE @,
                               !.pc = "except", !.raised_at = steps[i].pc]
    /\ UNCHANGED <<status_queue, scriptsFrame>>

\* a method that writes the second copy and keeps the first
GUnlink_Kept ==
    /\ call.op = "scripts" /\ call.pc = "unlink"
    /\ \/ call' = [call EXCEPT !.pc = "finish"]
       \/ call' = [call EXCEPT !.pc = "except", !.raised_at = "unlink"]
    /\ UNCHANGED <<status_queue, scriptsFrame>>

\* line 1400: the copy at the root is removed, or unlink raises
GUnlink ==
    /\ call.op = "scripts" /\ call.pc = "unlink"
    /\ \/ call' = [call EXCEPT
                      !.files = @ \ {SpecFile("root", test_file_name(call.test_name))},
                      !.pc = "finish"]
       \/ call' = [call EXCEPT !.pc = "except", !.raised_at = "unlink"]
    /\ UNCHANGED <<status_queue, scriptsFrame>>

\* lines 1402-1413
GFinish ==
    /\ call.op = "scripts" /\ call.pc = "finish"
    /\ status_queue' = Append(status_queue, Status(current_report_dir, "pw_done", ""))
    /\ call' = [call EXCEPT !.pc = "returned",
                            !.ret = ScriptsRecord(test_file_name(call.test_name))]
    /\ UNCHANGED scriptsFrame

\* lines 1418-1420
GExcept ==
    /\ call.op = "scripts" /\ call.pc = "except"
    /\ status_queue' = Append(status_queue,
                              Status(current_report_dir, "pw_error", ErrText(call.raised_at)))
    /\ call' = [call EXCEPT !.pc = "returned", !.ret = ReturnsNone]
    /\ UNCHANGED scriptsFrame

\* a runner before its first run (current_report_dir None), or after a
\* run that has ended and left its report directory set
InitScripts ==
    /\ running = FALSE
    /\ thread \in {0, 1}
    /\ current_report_dir = thread
    /\ status_queue = <<>>
    /\ result_queue = <<>>
    /\ workers = [r \in Runs |-> IF r <= thread THEN [NewWorker EXCEPT !.pc = "done"]
                                 ELSE NewWorker]
    /\ csv_data = NoCsv
    /\ current_row_index = 0
    /\ session = [use_faker |-> TRUE]
    /\ ui = [pc |-> "none"]
    /\ hist = [advanced |-> 0]
    /\ FAKER_AVAILABLE = TRUE
    /\ call = NoCall

NextScripts == GCall \/ GEnter \/ GSuite \/ GMkdir \/ GWrite \/ GUnlink
               \/ GFinish \/ GExcept

SpecScripts == InitScripts /\ [][NextScripts]_vars

\* ------------------------------------- PlaywrightCodeGenerator: the actions
MaxActions == 5     \* actions in a list given to optimize_actions

\* the actions of a list: a type and a target
ActionTypes == {"fill", "wait", "click"}
Targets == {"#email", ".results"}
Actions == [type : ActionTypes, target : Targets]

\* a loop that drops a wait whose target any wait kept before it has
RECURSIVE optimize_loop_AnyWait(_, _, _, _)
optimize_loop_AnyWait(actions, optimized, seen_fills, seen_waits) ==
    IF actions = <<>> THEN optimized
    ELSE LET action == Head(actions) IN
         IF action.type = "fill" /\ action.target \in seen_fills
         THEN optimize_loop_AnyWait(Tail(actions), optimized, seen_fills, seen_waits)
         ELSE IF action.type = "wait" /\ action.target \in seen_waits
         THEN optimize_loop_AnyWait(Tail(actions), optimized, seen_fills, seen_waits)
         ELSE optimize_loop_AnyWait(Tail(actions), Append(optimized, action),
                  IF action.type = "fill" THEN seen_fills \cup {action.target}
                  ELSE seen_fills,
                  IF action.type = "wait" THEN seen_waits \cup {action.target}
                  ELSE seen_waits)

\* lines 363-376: the loop of optimize_actions over the actions left, with
\* the list built so far and the fill targets seen
RECURSIVE optimize_loop(_, _, _)
optimize_loop(actions, optimized, seen_fills) ==
    IF actions = <<>> THEN optimized
    ELSE LET action == Head(actions)
             seen == IF action.type = "fill" THEN seen_fills \cup {action.target}
                     ELSE seen_fills
         IN
         IF action.type = "fill" /\ action.target \in seen_fills
         THEN optimize_loop(Tail(actions), optimized, seen_fills)
         ELSE IF /\ action.type = "wait" /\ optimized # <<>>
                 /\ optimized[Len(optimized)].type = "wait"
                 /\ optimized[Len(optimized)].target = action.target
         THEN optimize_loop(Tail(actions), optimized, seen)
         ELSE optimize_loop(Tail(actions), Append(optimized, action), seen)

\* a loop that compares a wait with the action before it in the input,
\* kept or not
RECURSIVE optimize_loop_PrevInput(_, _, _, _)
optimize_loop_PrevInput(actions, optimized, seen_fills, prev) ==
    IF actions = <<>> THEN optimized
    ELSE LET action == Head(actions)
             seen == IF action.type = "fill" THEN seen_fills \cup {action.target}
                     ELSE seen_fills
         IN
         IF action.type = "fill" /\ action.target \in seen_fills
         THEN optimize_loop_PrevInput(Tail(actions), optimized, seen_fills, <<action>>)
         ELSE IF /\ action.type = "wait" /\ prev # <<>>
                 /\ prev[1].type = "wait" /\ prev[1].target = action.target
         THEN optimize_loop_PrevInput(Tail(actions), optimized, seen, <<action>>)
         ELSE optimize_loop_PrevInput(Tail(actions), Append(optimized, action),
                                      seen, <<action>>)

optimize_actions_PrevInput(actions) == optimize_loop_PrevInput(actions, <<>>, {}, <<>>)

optimize_actions_AnyWait(actions) == optimize_loop_AnyWait(actions, <<>>, {}, {})

optimize_actions(actions) == optimize_loop(actions, <<>>, {})

\* generate_optimized_test_suite, lines 635-636 and 664-665: the actions
\* optimized and the two counts of the record
suite_counts(actions) ==
    LET optimized_actions == optimize_actions(actions) IN
    [optimized |-> optimized_actions,
     actions_extracted |-> Len(actions),
     actions_optimized |-> Len(optimized_actions)]

\* one more action is extracted
ExtractAction ==
    \E action \in Actions :
        /\ call.op = "actions"
        /\ Len(call.actions) < MaxActions
        /\ call' = [call EXCEPT !.actions = Append(@, action)]
        /\ UNCHANGED <<runnerVars, managerVars, session, ui, hist, FAKER_AVAILABLE>>

\* the list is optimized and counted
OptimizeActions ==
    /\ call.op = "actions"
    /\ call' = [call EXCEPT !.op = "suite", !.ret = suite_counts(call.actions)]
    /\ UNCHANGED <<runnerVars, managerVars, session, ui, hist, FAKER_AVAILABLE>>

InitActions ==
    /\ running = FALSE
    /\ thread = 0
    /\ status_queue = <<>>
    /\ result_queue = <<>>
    /\ current_report_dir = 0
    /\ workers = [r \in Runs |-> NewWorker]
    /\ session = [use_faker |-> TRUE]
    /\ ui = [pc |-> "none"]
    /\ csv_data = NoCsv
    /\ current_row_index = 0
    /\ hist = [advanced |-> 0]
    /\ FAKER_AVAILABLE = TRUE
    /\ call = [op |-> "actions", actions |-> <<>>, ret |-> suite_counts(<<>>),
               again |-> <<>>]

\* optimize_actions is called on the list it returned
OptimizeAgain ==
    /\ call.op = "suite"
    /\ call' = [call EXCEPT !.op = "again",
                            !.again = optimize_actions(call.ret.optimized)]
    /\ UNCHANGED <<runnerVars, managerVars, session, ui, hist, FAKER_AVAILABLE>>

NextActions == ExtractAction \/ OptimizeActions \/ OptimizeAgain

SpecActions == InitActions /\ [][NextActions]_vars

\* ------------------------------------ the test case text and its test steps
\* The text of a test case as a sequence of tokens (blanks between tokens
\* are not kept: every line is stripped before it is looked at).  A token
\* is a line break, one of the section headings the pattern of
\* extract_test_steps looks for (n = 0 as the template spells it, n = 1 in
\* another casing), a number with its dot, the bullet "- ", or other text.
Tok(k, t, n) == [k |-> k, t |-> t, n |-> n]
NL == Tok("nl", "", 0)
Kw(t, n) == Tok("kw", t, n)
Num(i) == Tok("num", "", i)
Bullet == Tok("bullet", "- ", 0)
Word(t) == Tok("text", t, 0)

\* the type whose steps generate_feature_specific_steps returns
StepsType(feature_type) ==
    IF feature_type \in FeatureTypes THEN feature_type ELSE "generic"

\* lines 819-899: how many steps each canned text has
StepCount(feature_type) ==
    CASE feature_type = "login" -> 7
      [] feature_type = "registration" -> 10
      [] feature_type = "product" -> 8
      [] feature_type = "search" -> 8
      [] feature_type = "contact" -> 9
      [] feature_type = "payment" -> 9
      [] feature_type = "profile" -> 8
      [] OTHER -> 7

\* the words of step i of a type, after its number
StepText(feature_type, i) == Tok("text", StepsType(feature_type), i)

\* the canned text: "  1. ..." to "  n. ...", one step a line
RECURSIVE steps_text(_, _)
steps_text(feature_type, i) ==
    IF i > StepCount(feature_type) THEN <<>>
    ELSE <<Num(i), StepText(feature_type, i)>>
         \o (IF i < StepCount(feature_type) THEN <<NL>> ELSE <<>>)
         \o steps_text(feature_type, i + 1)

\* lines 782-787: a line "  - key: value" for each value of the dict
RECURSIVE data_lines(_)
data_lines(values) ==
    IF values = <<>> THEN <<>>
    ELSE <<Bullet, Word("key:")>> \o Head(values) \o <<NL>> \o data_lines(Tail(values))

\* the values of test_data['data']: generated ones, or the cells of the
\* CSV row
DictValues(d, cells) ==
    CASE d.kind = "faker" -> <<<<Word("value")>>, <<Num(42)>>>>
      [] d.kind = "csv" -> cells
      [] OTHER -> <<>>

\* lines 792-814: the text generate_test_case returns for a summary, a
\* description and test data
generate_test_case_text(summary, description, test_data, cells) ==
    LET parts == generate_test_case(test_data)
        test_data_section ==
            IF IsNil(parts.test_data_section) THEN <<>>
            ELSE <<NL, Word("Test Data (Source:"), NL>>
                 \o data_lines(DictValues(Val(test_data).data, cells))
    IN  <<Word("=== Manual Test Case ==="), NL,
          Word("Test Case ID: TC_"), NL, Word("Title:")>> \o summary
        \o <<NL, Word("Objective: Verify that the system meets the requirement")>>
        \o summary
        \o <<NL, Word("Preconditions: User should have access to the application."), NL>>
        \o test_data_section
        \o <<NL, Kw("Test Steps:", 0), NL>>
        \o steps_text(parts.feature_type, 1)
        \o <<NL, NL, Kw("Expected Result:", 0), NL,
             Word("The system should behave as described in:")>>
        \o description
        \o <<NL, NL, Kw("Priority:", 0), Word("Medium"), NL,
             Kw("Test Type:", 0), Word("Manual"), NL,
             Word("Feature Type:"), Word(parts.feature_type), NL,
             Word("Status: Draft"), NL, NL, Word("Notes:"), NL,
             Bullet, Word("This test case was auto-generated from JIRA issue"), NL,
             Bullet, Word("Test data is"), NL,
             Bullet, Word("Review and modify as needed before execution"), NL>>

\* the first position from `from` on that holds one of the headings, in
\* any casing (re.IGNORECASE); 0 when there is none
FirstKw(text, names, from) ==
    LET S == {i \in from..Len(text) : text[i].k = "kw" /\ text[i].t \in names} IN
    IF S = {} THEN 0 ELSE CHOOSE i \in S : \A j \in S : i <= j

\* str.split('\n')
RECURSIVE SplitLines(_, _)
SplitLines(text, line) ==
    IF text = <<>> THEN <<line>>
    ELSE IF Head(text).k = "nl" THEN <<line>> \o SplitLines(Tail(text), <<>>)
    ELSE SplitLines(Tail(text), Append(line, Head(text)))

\* lines 939-940: the two re.sub calls
cleaned_step(line) ==
    LET unnumbered == IF line # <<>> /\ line[1].k = "num" THEN Tail(line) ELSE line
    IN  IF unnumbered # <<>> /\ unnumbered[1].k = "bullet" THEN Tail(unnumbered)
        ELSE unnumbered

\* lines 935-942: the loop over the lines
RECURSIVE step_lines(_)
step_lines(lines) ==
    IF lines = <<>> THEN <<>>
    ELSE LET line == Head(lines) IN
         (IF line # <<>> /\ line[1].k \in {"num", "bullet"} /\ cleaned_step(line) # <<>>
          THEN <<cleaned_step(line)>> ELSE <<>>)
         \o step_lines(Tail(lines))

\* extract_test_steps: re.search finds the first "Test Steps:" and the
\* group runs, lazily, to the first of the three headings after it or to
\* the end of the text
extract_test_steps(test_case_content) ==
    LET start == FirstKw(test_case_content, {"Test Steps:"}, 1)
        stop == FirstKw(test_case_content,
                        {"Expected Result:", "Priority:", "Test Type:"}, start + 1)
        last == IF stop = 0 THEN Len(test_case_content) ELSE stop - 1
    IN  IF start = 0 THEN <<>>
        ELSE step_lines(SplitLines(SubSeq(test_case_content, start + 1, last), <<>>))

\* summaries and descriptions of an issue, and cells of a CSV row: plain
\* words, and texts that name a section heading
UserTexts ==
    {<<Word("Login page")>>,
     <<Word("Fix"), Kw("Test Steps:", 1), Word("ordering")>>,
     <<Word("Show"), Kw("Test Steps:", 0), Num(3), Word("per page")>>,
     <<Kw("Test Steps:", 1), Word("and"), Kw("Priority:", 0), Word("fields")>>,
     <<Kw("Expected Result:", 0), Word("panel")>>}

CsvCells == {<<<<Word("alice")>>, <<Num(7)>>>>, <<<<Kw("Priority:", 1), Word("high")>>>>}

\* None, the faker record of every feature type, and a csv record
StepsData ==
    {Nil, Some(get_test_data(Frame(1), 0, TRUE, "login", "csv", Nil).ret)}
    \cup {Some(get_test_data(NoCsv, 0, TRUE, ft, "faker", Nil).ret) : ft \in FeatureTypes}

\* lines 1713-1718 and 1770: the page generates the test case of the issue
\* and extracts the steps from it
ExtractTestSteps ==
    \E summary \in UserTexts, description \in UserTexts,
       test_data \in StepsData, cells \in CsvCells :
        LET test_case == generate_test_case_text(summary, description, test_data, cells) IN
        /\ call' = [op |-> "steps", summary |-> summary, description |-> description,
                    test_data |-> test_data, cells |-> cells,
                    feature_type |-> generate_test_case(test_data).feature_type,
                    test_steps |-> extract_test_steps(test_case)]
        /\ UNCHANGED <<runnerVars, managerVars, session, ui, hist, FAKER_AVAILABLE>>

SpecSteps == InitPure /\ [][ExtractTestSteps]_vars

\* ------------------------------------------ the actions of a test result
MaxFields == 2      \* keys of test_data['data']

\* lines 291-306: the table of known field names, a name written as the
\* sequence of its characters
field_mapping ==
       (<<"e", "m", "a", "i", "l">> :> "input[type='email'], input[name*='email'], input[id*='email'], #email")
    @@ (<<"u", "s", "e", "r", "n", "a", "m", "e">> :> "input[name*='username'], input[name*='user'], input[id*='username'], #username")
    @@ (<<"p", "a", "s", "s", "w", "o", "r", "d">> :> "input[type='password'], input[name*='password'], input[id*='password'], #password")
    @@ (<<"f", "i", "r", "s", "t", "_", "n", "a", "m", "e">> :> "input[name*='first'], input[name*='fname'], input[id*='first'], #firstName")
    @@ (<<"l", "a", "s", "t", "_", "n", "a", "m", "e">> :> "input[name*='last'], input[name*='lname'], input[id*='last'], #lastName")
    @@ (<<"p", "h", "o", "n", "e">> :> "input[type='tel'], input[name*='phone'], input[id*='phone'], #phone")
    @@ (<<"a", "d", "d", "r", "e", "s", "s">> :> "input[name*='address'], textarea[name*='address'], input[id*='address'], #address")
    @@ (<<"c", "o", "m", "p", "a", "n", "y">> :> "input[name*='company'], input[id*='company'], #company")
    @@ (<<"s", "e", "a", "r", "c", "h", "_", "q", "u", "e", "r", "y">> :> "input[type='search'], input[name*='search'], input[id*='search'], #search")
    @@ (<<"m", "e", "s", "s", "a", "g", "e">> :> "textarea[name*='message'], textarea[name*='comment'], textarea[id*='message'], #message")
    @@ (<<"s", "u", "b", "j", "e", "c", "t">> :> "input[name*='subject'], input[id*='subject'], #subject")
    @@ (<<"c", "a", "r", "d", "_", "n", "u", "m", "b", "e", "r">> :> "input[name*='card'], input[name*='number'], input[id*='card'], #cardNumber")
    @@ (<<"c", "v", "v">> :> "input[name*='cvv'], input[name*='cvc'], input[id*='cvv'], #cvv")
    @@ (<<"q", "u", "a", "n", "t", "i", "t", "y">> :> "input[type='number'], input[name*='quantity'], input[id*='quantity'], #quantity")

\* A selector is a sequence of pieces of text, so that the fallback can be
\* built from the name; the empty sequence is the empty string.
\* line 308, with a table lookup that has no default
map_field_to_selector_NoDefault(field_name) ==
    IF lower(field_name) \in DOMAIN field_mapping
    THEN <<field_mapping[lower(field_name)]>>
    ELSE <<>>

\* line 308: field_mapping.get(field_name.lower(), f"input[name*='...")
map_field_to_selector(field_name) ==
    IF lower(field_name) \in DOMAIN field_mapping
    THEN <<field_mapping[lower(field_name)]>>
    ELSE <<"input[name*='">> \o field_name \o <<"'], input[id*='">> \o field_name
         \o <<"'], #">> \o field_name

\* lines 310-356: click, wait and assert of the six types that have them
get_feature_specific_actions(feature_type) ==
    CASE feature_type = "login" ->
           <<[type |-> "click", target |-> <<"button[type='submit'], input[type='submit'], .login-button, .btn-login">>, data |-> Nil],
             [type |-> "wait", target |-> <<".dashboard, .home, .profile, .welcome">>, data |-> Nil],
             [type |-> "assert", target |-> <<"url">>, data |-> Some("should contain dashboard or home")]>>
      [] feature_type = "registration" ->
           <<[type |-> "click", target |-> <<"button[type='submit'], .register-button, .signup-button, .btn-register">>, data |-> Nil],
             [type |-> "wait", target |-> <<".success, .confirmation, .welcome">>, data |-> Nil],
             [type |-> "assert", target |-> <<"text">>, data |-> Some("should contain success or welcome")]>>
      [] feature_type = "search" ->
           <<[type |-> "click", target |-> <<"button[type='submit'], .search-button, .btn-search">>, data |-> Nil],
             [type |-> "wait", target |-> <<".search-results, .results, .result-list">>, data |-> Nil],
             [type |-> "assert", target |-> <<".result-item, .search-result">>, data |-> Some("should be visible")]>>
      [] feature_type = "contact" ->
           <<[type |-> "click", target |-> <<"button[type='submit'], .submit-button, .btn-submit">>, data |-> Nil],
             [type |-> "wait", target |-> <<".success, .confirmation, .thank-you">>, data |-> Nil],
             [type |-> "assert", target |-> <<"text">>, data |-> Some("should contain thank you or sent")]>>
      [] feature_type = "product" ->
           <<[type |-> "click", target |-> <<".add-to-cart, .btn-add-cart, button[data-action='add-cart']">>, data |-> Nil],
             [type |-> "wait", target |-> <<".cart-success, .added-to-cart">>, data |-> Nil],
             [type |-> "assert", target |-> <<".cart-count, .cart-items">>, data |-> Some("should be updated")]>>
      [] feature_type = "payment" ->
           <<[type |-> "click", target |-> <<"button[type='submit'], .pay-button, .btn-pay">>, data |-> Nil],
             [type |-> "wait", target |-> <<".payment-success, .confirmation">>, data |-> Nil],
             [type |-> "assert", target |-> <<"text">>, data |-> Some("should contain success or confirmation")]>>
      [] OTHER -> <<>>

\* lines 233-237: the three navigation patterns, in the order they are tried
navigation_patterns == <<"navigate to", "opened", "visite">>

\* lines 260-267 for one pattern: a navigate action for every line of the
\* (lower-cased) text the pattern matches, the rest of the line its target
RECURSIVE findall(_, _)
findall(pattern, result_text) ==
    IF result_text = <<>> THEN <<>>
    ELSE (IF Head(result_text).verb = pattern
          THEN <<[type |-> "navigate", target |-> <<Head(result_text).rest>>, data |-> Nil]>>
          ELSE <<>>)
         \o findall(pattern, Tail(result_text))

\* lines 270-281: a fill action for each field whose selector is not empty
RECURSIVE fill_actions(_)
fill_actions(data_fields) ==
    IF data_fields = <<>> THEN <<>>
    ELSE LET field == Head(data_fields)
             selector == map_field_to_selector(field.field_name)
         IN  (IF selector # <<>>
              THEN <<[type |-> "fill", target |-> selector,
                      data |-> Some(field.field_value),
                      field_name |-> field.field_name]>>
              ELSE <<>>)
             \o fill_actions(Tail(data_fields))

\* extract_actions_from_result: automation_result is None or a sequence of
\* lines, test_data None or a record whose 'data' is the sequence of its
\* items and whose 'feature_type' may be missing
extract_actions_from_result(automation_result, test_data) ==
    LET result_text == IF IsNil(automation_result) THEN <<>> ELSE Val(automation_result)
        navigation == findall(navigation_patterns[1], result_text)
                      \o findall(navigation_patterns[2], result_text)
                      \o findall(navigation_patterns[3], result_text)
        fills == IF ~IsNil(test_data) /\ Val(test_data).data # <<>>
                 THEN fill_actions(Val(test_data).data) ELSE <<>>
        feature_type == IF ~IsNil(test_data) /\ ~IsNil(Val(test_data).feature_type)
                        THEN Val(Val(test_data).feature_type) ELSE "generic"
    IN  navigation \o fills \o get_feature_specific_actions(feature_type)

\* field names: known ones in several casings, unknown ones, the empty name
FieldNames ==
    {<<"e", "m", "a", "i", "l">>, <<"E", "m", "a", "i", "L">>, <<"C", "V", "V">>,
     <<"z", "i", "p">>, <<"Z", "i", "p">>, <<>>}

FieldValues == {"alice", "42"}

\* texts of an automation result: None, nothing, and lines that the
\* patterns match or do not match
AutomationResults ==
    {Nil, Some(<<>>),
     Some(<<[verb |-> "clicked", rest |-> "submit"]>>),
     Some(<<[verb |-> "opened", rest |-> "/home"],
            [verb |-> "navigate to", rest |-> "/login"]>>)}

\* one more item of the dict of test data; keys are distinct
AddField ==
    \E field_name \in FieldNames, field_value \in FieldValues :
        /\ call.op = "fields"
        /\ Len(call.data) < MaxFields
        /\ \A i \in 1..Len(call.data) : call.data[i].field_name # field_name
        /\ call' = [call EXCEPT !.data = Append(@, [field_name |-> field_name,
                                                     field_value |-> field_value])]
        /\ UNCHANGED <<runnerVars, managerVars, session, ui, hist, FAKER_AVAILABLE>>

\* lines 635: the actions of a result are extracted, with no test data or
\* with a record, which has a feature type (faker) or none (csv)
ExtractActions ==
    \E automation_result \in AutomationResults, given \in BOOLEAN,
       feature_type \in {Nil} \cup {Some(ft) : ft \in FeatureTypes} :
        LET test_data == IF given THEN Some([data |-> call.data, feature_type |-> feature_type])
                         ELSE Nil IN
        /\ call.op = "fields"
        /\ call' = [call EXCEPT !.op = "extracted",
                                !.automation_result = automation_result,
                                !.test_data = test_data,
                                !.ret = extract_actions_from_result(automation_result, test_data)]
        /\ UNCHANGED <<runnerVars, managerVars, session, ui, hist, FAKER_AVAILABLE>>

InitExtract ==
    /\ running = FALSE
    /\ thread = 0
    /\ status_queue = <<>>
    /\ result_queue = <<>>
    /\ current_report_dir = 0
    /\ workers = [r \in Runs |-> NewWorker]
    /\ session = [use_faker |-> TRUE]
    /\ ui = [pc |-> "none"]
    /\ csv_data = NoCsv
    /\ current_row_index = 0
    /\ hist = [advanced |-> 0]
    /\ FAKER_AVAILABLE = TRUE
    /\ call = [op |-> "fields", data |-> <<>>, automation_result |-> Nil,
               test_data |-> Nil, ret |-> <<>>]

NextExtract == AddField \/ ExtractActions

SpecExtract == InitExtract /\ [][NextExtract]_vars

\* ------------------------------------------------- properties: the runner
ActiveWorkers == {r \in Runs : Active(r)}

\* C1: with run_browser_automation called from the one UI thread, at most
\* one worker thread executes at any time; a call that finds the flag set
\* returns False and starts no thread; a call that finds it clear goes on
\* to return True, and that starts exactly one thread.
C1_OneWorkerAtATime ==
    [][ /\ Cardinality({r \in Runs : workers'[r].pc \notin {"new", "done"}}) <= 1
        /\ (ui.pc = "call" /\ ui' # ui /\ running) =>
               /\ ui'.ret = Some(FALSE)
               /\ ui'.pc = "status"
               /\ thread' = thread /\ workers' = workers /\ running' = running
        /\ (ui.pc = "call" /\ ui' # ui /\ ~running) => ui'.pc = "start"
        /\ (thread' # thread \/ (ui.pc = "start" /\ ui' # ui)) =>
               /\ ui.pc = "start"
               /\ thread' = thread + 1
               /\ ActiveWorkers = {}
               /\ {r \in Runs : workers'[r].pc \notin {"new", "done"}} = {thread'}
               /\ running'
      ]_vars

\* a call has returned False while the worker of an earlier launch runs
C1_Witness ==
    /\ ui.ret = Some(FALSE)
    /\ Cardinality(ActiveWorkers) = 1
    /\ running

\* C2: a started run has put no final result before its worker reaches the
\* finally block and exactly one from then on, whether the body completed
\* or raised; the result is the last thing the worker put, with success
\* True after a complete body and success False after an exception.
C2_ExactlyOneResult ==
    \A r \in Runs :
        LET w == workers[r] IN
        /\ hist.results[r] = IF w.pc \in {"finally", "done"} THEN 1 ELSE 0
        /\ w.pc = "finally" =>
              /\ w.log # <<>>
              /\ w.log[Len(w.log)] = IF w.err = "" THEN "RESULT_OK" ELSE "RESULT_FAIL"
              /\ Cardinality({i \in 1..Len(w.log) :
                     w.log[i] \in {"RESULT_OK", "RESULT_FAIL"}}) = 1

\* a worker whose body raised has ended, another has completed its body
C2_Witness ==
    /\ workers[1].pc = "done"
    /\ hist.results[1] = 1
    /\ workers[2].pc = "finally"
    /\ workers[2].err # ""

\* C3: an exception raised in the worker body is handled in the worker: no
\* further step of the body runs, the worker puts the error status and then
\* the result {success: False, error: <message>}, every failed result and
\* error status on the queues carries a non-empty message, and agent.run()
\* is called at most once per run.
C3_ExceptionHandled ==
    /\ \A r \in Runs :
          LET w == workers[r] IN
          /\ w.agent_calls <= 1
          /\ w.err # "" => w.pc \in {"except", "except_result", "finally"}
          /\ (w.err # "" /\ w.pc = "finally") =>
                /\ Len(w.log) >= 2
                /\ w.log[Len(w.log) - 1] = "error"
                /\ w.log[Len(w.log)] = "RESULT_FAIL"
                /\ Cardinality({i \in 1..Len(w.log) : w.log[i] = "error"}) = 1
    /\ \A i \in 1..Len(result_queue) :
          result_queue[i].success = (result_queue[i].error = "")
    /\ \A i \in 1..Len(status_queue) :
          status_queue[i].kind = "error" => status_queue[i].msg # ""

\* agent.run() raised, and the worker has put the error status and result
C3_Witness ==
    \E r \in Runs :
        /\ workers[r].pc = "finally"
        /\ workers[r].err = "run"
        /\ workers[r].agent_calls = 1
        /\ \E i \in 1..Len(result_queue) :
              result_queue[i].run = r /\ ~result_queue[i].success

\* C4: the running flag is set exactly while a worker is between its
\* accepted launch and the end of its finally block: it is clear whenever
\* no worker executes, so the next call is accepted, and nothing clears it
\* while the worker is still in its body or its except clause.
C4_FlagTracksWorker ==
    /\ running <=> ActiveWorkers # {}
    /\ ui.pc = "start" => ~running

\* a second launch is about to be accepted after the first worker ended
C4_Witness ==
    /\ workers[1].pc = "done"
    /\ ui.pc = "start"
    /\ thread = 1

\* C5: every final result is retrieved by a get_result of a render tick
\* without further user interaction: the script never comes to rest, to
\* wait for the user, while a result is on the result queue.
C5_ResultRetrieved ==
    ui.pc = "idle" => result_queue = <<>>

\* ------------------------------------------- properties: CSV testing gate
\* C8: in CSV mode no run is launched once as many runs have been launched
\* since the last reset as the loaded CSV has rows.
C8_RunsBoundedByRows ==
    (~session.use_faker /\ csv_data.loaded) => hist.csv_runs <= Len(csv_data.rows)

\* ------------------------------------------- properties: TestDataManager
\* the line of the frame a returned row is
RowAt(csv, k) == csv.rows[(k % Len(csv.rows)) + 1]

\* C7: with n >= 1 rows loaded the cursor stays in 0..n-1 (and at 0 with no
\* or an empty frame); the k-th call without a row index after a load
\* returns row k mod n and moves the cursor one on, cyclically; a call with
\* an explicit row_index returns row (row_index mod n) and leaves the
\* cursor alone; with no CSV or zero rows the result is {} and the cursor
\* is unchanged.
C7_CyclicCursor ==
    /\ IF csv_data.loaded /\ Len(csv_data.rows) >= 1
       THEN current_row_index \in 0..(Len(csv_data.rows) - 1)
       ELSE current_row_index = 0
    /\ (call.op = "row" \/ (call.op = "data" /\ call.ret.source = "csv")) =>
          LET csv == call.pre_csv
              n == Len(csv.rows)
          IN  IF ~csv.loaded \/ n = 0
              THEN call.row = EmptyDict /\ current_row_index = call.pre_cur
              ELSE IF IsNil(call.row_index)
              THEN /\ call.row = CsvRow(n, call.pre_advanced % n)
                   /\ call.row = RowAt(csv, call.pre_cur)
                   /\ current_row_index = (call.pre_cur + 1) % n
              ELSE /\ call.row = RowAt(csv, Val(call.row_index))
                   /\ call.row.line \in 0..(n - 1)
                   /\ \E q \in (0 - 2 * MaxRows)..(2 * MaxRows) :
                         call.row.line = Val(call.row_index) - q * n
                   /\ current_row_index = call.pre_cur

\* the cursor has wrapped around: the call after the last row of a frame of
\* at least two rows returned row 0 again
C7_Witness ==
    /\ call.op = "row"
    /\ IsNil(call.row_index)
    /\ Len(call.pre_csv.rows) >= 2
    /\ call.pre_advanced = Len(call.pre_csv.rows)
    /\ call.row.line = 0

\* C9: get_test_data returns a record with source 'csv' exactly when
\* data_mode is 'csv' and a CSV has been loaded, and otherwise a record
\* with source 'faker' that carries the given feature_type; faker mode
\* never moves the CSV cursor.
C9_SourceSelection ==
    call.op = "data" =>
        /\ call.ret.source = "csv" <=> (call.data_mode = "csv" /\ call.pre_csv.loaded)
        /\ call.ret.source # "csv" =>
              /\ call.ret.source = "faker"
              /\ call.ret.feature_type = Some(call.feature_type)
              /\ call.ret.data.kind \in {"faker", "empty"}
              /\ current_row_index = call.pre_cur
        /\ call.ret.source = "csv" => call.ret.data.kind \in {"csv", "empty"}

\* csv mode with no CSV loaded fell back to faker data
C9_Witness ==
    /\ call.op = "data"
    /\ call.data_mode = "csv"
    /\ ~call.pre_csv.loaded
    /\ call.ret.source = "faker"
    /\ call.ret.data = FakerDict(call.feature_type)

\* --------------------------------------- properties: detect_feature_type
\* the categories in the order in which they win, and their keywords
CategoryOrder == <<"login", "registration", "product", "search", "contact",
                   "payment", "profile">>
KeywordsOf(c) ==
    CASE c = "login" -> LoginKeywords
      [] c = "registration" -> RegistrationKeywords
      [] c = "product" -> ProductKeywords
      [] c = "search" -> SearchKeywords
      [] c = "contact" -> ContactKeywords
      [] c = "payment" -> PaymentKeywords
      [] c = "profile" -> ProfileKeywords

\* the categories one of whose keywords occurs in title + ' ' + description,
\* letter case ignored
Hits(title, description) ==
    LET text == lower(title) \o <<" ">> \o lower(description) IN
    {k \in 1..7 : \E keyword \in KeywordsOf(CategoryOrder[k]) :
                     \E i \in 1..Len(text) :
                        /\ i + Len(keyword) - 1 <= Len(text)
                        /\ \A j \in 1..Len(keyword) : text[i + j - 1] = keyword[j]}

\* C10: detect_feature_type returns one of the eight feature types; it
\* matches keywords as substrings of title + ' ' + description with letter
\* case ignored; of the categories that have a keyword in the text the
\* earliest in the order login > registration > product > search > contact
\* > payment > profile wins; the result is generic exactly when no keyword
\* of any category occurs.
C10_DetectFeatureType ==
    call.op = "detect" =>
        LET hits == Hits(call.title, call.description) IN
        /\ call.ret \in FeatureTypes
        /\ call.ret = "generic" <=> hits = {}
        /\ hits # {} =>
              call.ret = CategoryOrder[CHOOSE k \in hits : \A m \in hits : k <= m]
        /\ call.ret = detect_feature_type(lower(call.title), lower(call.description))

\* keywords of two categories occur, one of them only across the blank
\* that joins title and description, and the earlier category has won
C10_Witness ==
    /\ call.op = "detect"
    /\ call.title = <<"c", "r", "e", "a", "t", "e">>
    /\ call.description = <<"a", "c", "c", "o", "u", "n", "t">>
    /\ Hits(call.title, call.description) = {2, 7}
    /\ call.ret = "registration"

\* ------------------------------------------------ properties: JIRA calls
\* the call succeeded: the request did not raise, the status is the one
\* the function expects, and the body could be read
Succeeded(c) ==
    /\ ~c.resp.raises
    /\ c.resp.status = IF c.op = "create_jira_issue" THEN 201 ELSE 200
    /\ c.resp.body \notin {"not_json", "missing"}

\* C6: the three wrappers return instead of raising; on a non-success
\* status or an exception they return a non-empty error message with empty
\* data (None, None for fetch and create, [] for issue types); the error is
\* None exactly when the call succeeded; each call makes one HTTP request.
C6_JiraErrorsReturned ==
    call.op \in {"get_issue_types", "create_jira_issue", "fetch_jira_issue"} =>
        /\ IsNil(call.ret.error) <=> Succeeded(call)
        /\ ~IsNil(call.ret.error) =>
              /\ Val(call.ret.error) # ""
              /\ IF call.op = "get_issue_types"
                 THEN call.ret.first = <<>>
                 ELSE IsNil(call.ret.first) /\ IsNil(call.ret.second)
        /\ (IsNil(call.ret.error) /\ call.op # "get_issue_types") =>
              ~IsNil(call.ret.first) /\ ~IsNil(call.ret.second)
        /\ call.ret.requests = 1

\* create_jira_issue met a readable answer with status 200, not 201, and
\* returned an error and no data
C6_Witness ==
    /\ call.op = "create_jira_issue"
    /\ ~call.resp.raises /\ call.resp.status = 200 /\ call.resp.body = "text"
    /\ call.ret.error = Some("Error creating issue: ")
    /\ IsNil(call.ret.first) /\ IsNil(call.ret.second)

\* ------------------------------------------ properties: generated test case
\* C11: the test case generated for an issue that detect_feature_type
\* classifies as T has the canned steps of T and the line
\* "Feature Type: T", in the faker and in the csv data mode.
C11_StepsOfDetectedType ==
    call.op = "generate" =>
        LET T == detect_feature_type(call.summary, call.description) IN
        /\ call.test_case.steps = generate_feature_specific_steps(T)
        /\ call.test_case.feature_type = T

\* ------------------------------------------------ properties: verify_setup
\* every check of the run passed
AllChecksPassed ==
    /\ call.failed = {}
    /\ call.browsers = Some(TRUE)
    /\ call.env.exists /\ call.env.deepseek /\ call.env.jira

\* C12: main prints the "All dependencies installed correctly" message if
\* and only if every module check and the browser check succeeded and .env
\* exists and contains both key names; with any failed check it prints the
\* "Some dependencies are missing" message; check_module returns
\* (False, message) when the module is absent or its import raises.
C12_VerifySummary ==
    /\ (call.op = "verify" /\ call.pc \in {"done", "raised"}) =>
          /\ (call.printed = Some("all")) <=> AllChecksPassed
          /\ ~AllChecksPassed => call.printed = Some("some")
    /\ (call.op = "verify" /\ call.outcome \in ModuleOutcomes \ {"found"}) =>
          /\ ~call.ret.success
          /\ call.ret.message[1] \in {"not found", "error"}

\* C13: in csv mode the 'row_index' of the record of get_test_data is the
\* index, in 0..n-1, of the row of the frame whose values are in 'data',
\* with row_index None at every cursor position and with every explicit
\* row_index.
C13_RowIndexOfReturnedRow ==
    (call.op = "data" /\ call.ret.source = "csv" /\ Len(call.pre_csv.rows) > 0) =>
        /\ ~IsNil(call.ret.row_index)
        /\ Val(call.ret.row_index) \in 0..(Len(call.pre_csv.rows) - 1)
        /\ call.ret.data = call.pre_csv.rows[Val(call.ret.row_index) + 1]

\* C14: when run_browser_automation accepts a run, no item of an earlier
\* run is left on the status queue or the result queue: every item on the
\* two queues, and so every item the page retrieves, is of the run launched
\* last.
C14_NoStaleItems ==
    /\ \A i \in DOMAIN status_queue : status_queue[i].run = thread
    /\ \A i \in DOMAIN result_queue : result_queue[i].run = thread

\* ------------------------------------- properties: two concurrent callers
\* both calls have ended, they overlapped, and each began with the flag
\* clear
RaceOver ==
    /\ call.op = "race"
    /\ \A c \in Callers : Returned(c) /\ call.callers[c].entered_clear
    /\ call.overlap

ReturnedTrue == {c \in Callers : call.callers[c].ret = Some(TRUE)}
StartedThreads == {r \in Runs : workers[r].pc # "new"}

\* C15 as stated: of two concurrent calls made while running is False,
\* exactly one returns True and exactly one worker thread is started.
C15_ExactlyOneAccepted ==
    RaceOver => /\ Cardinality(ReturnedTrue) = 1
                /\ Cardinality(StartedThreads) = 1

\* C15 as amended: of two concurrent calls made while running is False, at
\* least one returns True; every call that returns True has started one
\* worker thread of its own, so one or two are started; a call returns
\* False only after the other call has set the flag.
C15_AtLeastOneAccepted ==
    call.op = "race" =>
        /\ Cardinality(StartedThreads) = Cardinality(ReturnedTrue)
        /\ RaceOver => Cardinality(ReturnedTrue) \in 1..2
        /\ \A c \in Callers :
              call.callers[c].ret = Some(FALSE) =>
                  \E d \in Callers \ {c} :
                      call.callers[d].pc \in {"create", "start", "ret", "raised"}
                      /\ call.callers[d].ret # Some(FALSE)

\* both callers passed the check before either set the flag: both calls
\* returned True and two workers were started
C15_Witness ==
    /\ RaceOver
    /\ ReturnedTrue = Callers
    /\ Cardinality(StartedThreads) = 2

\* ------------------------------------------- properties: order of the puts
\* run r puts an item on the queue q in this step (the page only takes
\* items from the head)
Puts(r, q, q2) == Len(q2) > Len(q) /\ q2[Len(q2)].run = r

\* C16: within a run every status, those of run_demo_automation and
\* generate_playwright_scripts and the error status included, is put before
\* the run's result, the result is put before the flag is cleared, and the
\* first status of the run is the "Initializing browser automation" one of
\* line 1011.
C16_StatusThenResultThenFlag ==
    [][\A r \in Runs :
          LET w == workers[r] IN
          /\ Puts(r, status_queue, status_queue') =>
                /\ hist.results[r] = 0
                /\ running /\ running'
                /\ workers'[r].log = w.log \o <<workers'[r].log[Len(workers'[r].log)]>>
                /\ (w.log = <<>>) <=> (w.pc = "init")
          /\ Puts(r, result_queue, result_queue') =>
                /\ hist.results[r] = 0 /\ hist'.results[r] = 1
                /\ running /\ running'
                /\ w.log # <<>> /\ w.log[1] = "init"
          /\ (w.pc # "done" /\ workers'[r].pc = "done") =>
                /\ hist.results[r] = 1
                /\ running /\ ~running'
                /\ w.log[Len(w.log)] \in {"RESULT_OK", "RESULT_FAIL"}
      ]_vars

\* a demo run has put its statuses, those of the demo steps and of the
\* script generation among them, then its result, and has yet to clear the
\* flag
C16_Witness ==
    \E r \in Runs :
        LET log == workers[r].log IN
        /\ workers[r].pc = "finally" /\ running
        /\ log[1] = "init" /\ log[Len(log)] = "RESULT_OK"
        /\ \E i, j \in 1..Len(log) : log[i] = "demo_step" /\ log[j] = "pw_done"
        /\ hist.results[r] = 1

\* ------------------------------------------ properties: the rejected call
\* C17: a call of run_browser_automation that returns False starts no
\* thread, puts nothing on either queue and leaves running, thread and
\* current_report_dir as they were.
C17_RejectedCallChangesNothing ==
    [][(ui.pc = "call" /\ ui'.pc # "call" /\ ui'.ret = Some(FALSE)) =>
          /\ running' = running /\ running
          /\ thread' = thread
          /\ workers' = workers
          /\ status_queue' = status_queue
          /\ result_queue' = result_queue
          /\ current_report_dir' = current_report_dir
      ]_vars

\* a call has returned False while the run before it has statuses on the
\* queue and its report directory set
C17_Witness ==
    /\ ui.pc = "status" /\ ui.ret = Some(FALSE)
    /\ thread = 1 /\ workers[1].pc = "demo_loop"
    /\ status_queue # <<>>
    /\ current_report_dir = 1

\* --------------------------------- properties: report and script failures
\* C18: a failure in generate_test_report or generate_playwright_scripts
\* does not fail the run: the first returns None, the second puts the
\* "Error generating Playwright scripts" status and returns None, neither
\* raises, and the final result has success True with report_path None or
\* playwright_scripts None.
C18_ReportFailuresTolerated ==
    [][\A r \in Runs :
          LET w == workers[r]
              w2 == workers'[r]
          IN
          /\ (w.pc = "report" /\ w2.pc # "report") => w2.pc = "scripts"
          /\ (w.pc = "scripts" /\ w2.pc # "scripts") => w2.pc = "scripts_end"
          /\ (w.pc = "scripts_end" /\ w2.pc # "scripts_end") =>
                /\ w2.pc = "result"
                /\ ~w2.playwright_result =>
                      /\ Puts(r, status_queue, status_queue')
                      /\ status_queue'[Len(status_queue')].kind = "pw_error"
          /\ (w.pc = "result" /\ w2.pc # "result") =>
                /\ Puts(r, result_queue, result_queue')
                /\ LET result == result_queue'[Len(result_queue')] IN
                   /\ result.success
                   /\ result.report_path = w.report_path
                   /\ result.playwright_scripts = w.playwright_result
      ]_vars

\* a run whose report and whose scripts both failed has put a result with
\* success True, report_path None and playwright_scripts None
C18_Witness ==
    \E i \in DOMAIN result_queue :
        /\ result_queue[i].success
        /\ ~result_queue[i].report_path
        /\ ~result_queue[i].playwright_scripts
        /\ workers[result_queue[i].run].pc = "finally"
        /\ \E j \in DOMAIN workers[result_queue[i].run].log :
              workers[result_queue[i].run].log[j] = "pw_error"

\* --------------------------------------- properties: the generated scripts
\* the spec file of the call, at the root and under tests/
RootCopy == SpecFile("root", test_file_name(call.test_name))
FinalCopy == SpecFile("tests", test_file_name(call.test_name))
Generated ==
    {FinalCopy, RootEntry("package.json"), RootEntry("playwright.config.ts"),
     RootEntry("README.md")}

RECURSIVE Pick(_, _, _)
Pick(s, K, i) ==
    IF i > Len(s) THEN <<>>
    ELSE (IF i \in K THEN <<s[i]>> ELSE <<>>) \o Pick(s, K, i + 1)

\* whether the action at position i is kept, K being the positions kept:
\* a fill when no fill before it has its target, a wait unless the last
\* position kept before it holds a wait with its target, any other always
KeptRule(s, K, i) ==
    CASE s[i].type = "fill" ->
             ~\E j \in 1..(i - 1) : s[j].type = "fill" /\ s[j].target = s[i].target
      [] s[i].type = "wait" ->
             ~\E j \in K :
                 /\ j < i
                 /\ \A k \in K : k < i => k <= j
                 /\ s[j].type = "wait" /\ s[j].target = s[i].target
      [] OTHER -> TRUE

\* C20: optimize_actions returns the subsequence of its input that keeps,
\* in the original order, the first fill of each fill target, every wait
\* except one whose target is that of a wait kept last before it, and every
\* action of another type; so actions_optimized <= actions_extracted.
C20_OptimizeActions ==
    call.op = "suite" =>
        /\ \E K \in SUBSET (1..Len(call.actions)) :
              /\ \A i \in 1..Len(call.actions) : i \in K <=> KeptRule(call.actions, K, i)
              /\ call.ret.optimized = Pick(call.actions, K, 1)
        /\ call.ret.actions_extracted = Len(call.actions)
        /\ call.ret.actions_optimized = Len(call.ret.optimized)
        /\ call.ret.actions_optimized <= call.ret.actions_extracted

\* a list with a repeated wait dropped, a later wait of the same target kept
\* after a fill, and a repeated fill dropped
C20_Witness ==
    /\ call.op = "suite"
    /\ call.actions = <<[type |-> "wait", target |-> ".results"],
                        [type |-> "wait", target |-> ".results"],
                        [type |-> "fill", target |-> "#email"],
                        [type |-> "wait", target |-> ".results"],
                        [type |-> "fill", target |-> "#email"]>>
    /\ call.ret.optimized = <<[type |-> "wait", target |-> ".results"],
                              [type |-> "fill", target |-> "#email"],
                              [type |-> "wait", target |-> ".results"]>>

\* C21: optimize_actions is idempotent: applied to the list it returned it
\* returns that list, also when a dropped repeated fill stood between two
\* waits of one target.
C21_OptimizeIdempotent ==
    call.op = "again" => call.again = call.ret.optimized

\* a repeated fill between two waits of one target: the fill is dropped,
\* the second wait then follows the first and is dropped, and the second
\* application returns the same two actions
C21_Witness ==
    /\ call.op = "again"
    /\ call.actions = <<[type |-> "fill", target |-> "#email"],
                        [type |-> "wait", target |-> ".results"],
                        [type |-> "fill", target |-> "#email"],
                        [type |-> "wait", target |-> ".results"]>>
    /\ call.again = <<[type |-> "fill", target |-> "#email"],
                      [type |-> "wait", target |-> ".results"]>>

\* ----------------------------------------- properties: extract_test_steps
\* the canned steps of a type, without their numbers
CannedSteps(feature_type) ==
    [i \in 1..StepCount(feature_type) |-> <<StepText(feature_type, i)>>]

\* C22: for every feature type, summary, description and test data,
\* extract_test_steps of the text of generate_test_case is the list of the
\* canned steps of the type, in order, without the numbering: 7 to 10
\* steps, never none.
C22_StepsRoundTrip ==
    call.op = "steps" =>
        /\ call.test_steps = CannedSteps(call.feature_type)
        /\ Len(call.test_steps) \in 7..10

\* ------------------------------- properties: extract_actions_from_result
\* the items of test_data['data'] of the call, none when there is no data
DataFields == IF IsNil(call.test_data) THEN <<>> ELSE Val(call.test_data).data

\* the navigate actions at the head of the list returned
Navigates == Cardinality({i \in 1..Len(call.ret) : call.ret[i].type = "navigate"})

\* C23: map_field_to_selector never returns an empty selector (a known
\* name in any casing gives its table entry, any other name a selector
\* built from the name), so the list of extract_actions_from_result is its
\* navigate actions, then exactly one fill action for each key of
\* test_data['data'] in key order, then the click/wait/assert actions of
\* the feature type.
C23_OneFillPerField ==
    call.op = "extracted" =>
        /\ Len(call.ret) >= Navigates + Len(DataFields)
        /\ \A i \in 1..Len(call.ret) :
             CASE i <= Navigates -> call.ret[i].type = "navigate"
               [] i > Navigates /\ i <= Navigates + Len(DataFields) ->
                    LET field == DataFields[i - Navigates]
                        name == field.field_name
                    IN  /\ call.ret[i].type = "fill"
                        /\ call.ret[i].field_name = name
                        /\ call.ret[i].data = Some(field.field_value)
                        /\ call.ret[i].target # <<>>
                        /\ IF lower(name) \in DOMAIN field_mapping
                           THEN call.ret[i].target = <<field_mapping[lower(name)]>>
                           ELSE /\ Len(call.ret[i].target) = 3 + 3 * Len(name)
                                /\ SubSeq(call.ret[i].target, 2, 1 + Len(name)) = name
               [] OTHER -> call.ret[i].type \in {"click", "wait", "assert"}

\* a result with two navigations, and data whose keys are a known name in
\* another casing and an unknown name, of a feature type with actions
C23_Witness ==
    /\ call.op = "extracted"
    /\ Navigates = 2
    /\ Len(DataFields) = 2
    /\ DataFields[1].field_name = <<"Z", "i", "p">>
    /\ DataFields[2].field_name = <<"E", "m", "a", "i", "L">>
    /\ Len(call.ret) = 7
    /\ call.ret[3].target = <<"input[name*='", "Z", "i", "p", "'], input[id*='",
                              "Z", "i", "p", "'], #", "Z", "i", "p">>
    /\ call.ret[4].target = <<"input[type='email'], input[name*='email'], input[id*='email'], #email">>
    /\ call.ret[7].type = "assert"

====
